---- MODULE Spec2Model ----
(***************************************************************************)
(* Model of the folder-scan / report / scheduler / archive pipeline of     *)
(* folderaudit: app.py (report generation, settings, scheduled delivery),  *)
(* core/scheduler.py (job registry, cron triggers), storage.py (archive    *)
(* store), core/scanner.py (scanner), core/config.py (configuration),      *)
(* core/report.py (classification and formatting).                         *)
(*                                                                         *)
(* Each subsystem has its own specification (SpecGen, SpecGenFair,         *)
(* SpecDeliver, SpecSched, SpecCron, SpecArchive, SpecStore, SpecScan,     *)
(* SpecThresh, SpecSettings, SpecLoad); the variables of the other         *)
(* subsystems keep their initial value.                                    *)
(***************************************************************************)
EXTENDS Integers, Sequences, FiniteSets, TLC

VARIABLES
    \* ---- app.py: report generation ----
    is_generating,      \* app.py global is_generating
    gen,                \* position of every do_generate thread
    genOutcome,         \* how the body of every do_generate thread ended
    rejected,           \* number of clicks answered with "Please wait"
    cache,              \* the *.pdf files of cache_reports_dir(), the one
                        \* modified last at the end
    mailed,             \* what the last run of scheduled_email_job did
    \* ---- core/scheduler.py: job registry ----
    jobs,               \* the job store of sched: a set of job records
    schedCall,          \* the schedule_job call in progress, or NoCall
    lastRet,            \* what the last scheduler call returned, or NoCall
    \* ---- storage.py: archive store ----
    files,              \* the report files in APP_DIR: stored name -> attributes
    index,              \* APP_DIR/index.json: "missing", "corrupt" or the list
    clock,              \* the latest value time.time() has returned
    archRet,            \* the archive call that has just returned, or NoRet
    \* ---- core/scanner.py: one call of scan_folders ----
    tree,               \* what is at every place of the scanned folders
    rootExists,         \* which of the given roots exist
    scanPc,             \* position of scan_folders
    ri,                 \* index of the root the loop is at
    dq,                 \* directories of that root os.walk has not listed yet
    curDir,             \* dirpath: the directory being processed
    pending,            \* filenames of that directory not visited yet
    cur,                \* p between p.stat() and _modified_dt(p)
    total_files,        \* scanner.py total_files
    processed,          \* scanner.py processed
    rows,               \* scanner.py rows
    calls,              \* the calls callback(done, total) made so far
    touched,            \* places changed by other programs during the scan
    touchedRoots,       \* roots changed by other programs during the scan
    envChanges,         \* number of such changes
    \* ---- core/config.py and the settings tab of app.py ----
    cfg,                \* app.py global cfg: the Config object in memory
    config_file,        \* config.json: "missing", "corrupt" or its data
    cfgRet,             \* what the settings handler that ran last did
    \* ---- the cron trigger of a scheduled job on the calendar ----
    cronJob,            \* the job a schedule_job call registered, with its
                        \* next_run_time, or NoCronJob
    cronLast,           \* what happened to that job last
    cronCount           \* runs of the job since it was registered

genVars == <<is_generating, gen, genOutcome, rejected, cache, mailed>>

schedVars == <<jobs, schedCall, lastRet>>

archVars == <<files, index, clock, archRet>>

scanVars == <<tree, rootExists, scanPc, ri, dq, curDir, pending, cur,
              total_files, processed, rows, calls, touched, touchedRoots,
              envChanges>>

cfgVars == <<cfg, config_file, cfgRet>>

cronVars == <<cronJob, cronLast, cronCount>>

vars == <<is_generating, gen, genOutcome, rejected, cache, mailed,
          jobs, schedCall, lastRet,
          files, index, clock, archRet,
          tree, rootExists, scanPc, ri, dq, curDir, pending, cur,
          total_files, processed, rows, calls, touched, touchedRoots,
          envChanges,
          cfg, config_file, cfgRet,
          cronJob, cronLast, cronCount>>

-----------------------------------------------------------------------------
(* Bounds *)

MaxThreads == 2      \* threads the UI may spawn in one run of the model
MaxRejected == 2     \* rejected clicks that are counted
MaxFiles == 2        \* report files the archive directory holds at most
MaxEnvChanges == 1   \* changes other programs make to the tree during a scan
MaxRuns == 3         \* runs of a scheduled job that are followed

-----------------------------------------------------------------------------
(* app.py: on_click_generate / do_generate *)

ThreadIds == 1..MaxThreads

\* a do_generate thread exists and has not finished its finally block
InFlight(t) == gen[t] \in {"spawned", "running", "caching", "finally"}

InitGen ==
    /\ is_generating = FALSE
    /\ gen = [t \in ThreadIds |-> "none"]
    /\ genOutcome = [t \in ThreadIds |-> "pending"]
    /\ rejected = 0
    /\ cache = <<>>
    /\ mailed = [op |-> "none"]

\* on_click_generate, is_generating set: message box, no thread
ClickRejected ==
    /\ is_generating
    /\ rejected < MaxRejected
    /\ rejected' = rejected + 1
    /\ UNCHANGED <<is_generating, gen, genOutcome, cache, mailed>>
    /\ UNCHANGED <<schedVars, archVars, scanVars, cfgVars, cronVars>>

\* on_click_generate, is_generating clear: threading.Thread(...).start()
ClickAccepted ==
    /\ ~is_generating
    /\ \E t \in ThreadIds :
        /\ gen[t] = "none"
        /\ \A u \in ThreadIds : u < t => gen[u] # "none"
        /\ gen' = [gen EXCEPT ![t] = "spawned"]
    /\ UNCHANGED <<is_generating, genOutcome, rejected, cache, mailed>>
    /\ UNCHANGED <<schedVars, archVars, scanVars, cfgVars, cronVars>>

on_click_generate == ClickRejected \/ ClickAccepted

\* do_generate: first statement of the try block
GenStart(t) ==
    /\ gen[t] = "spawned"
    /\ is_generating' = TRUE
    /\ gen' = [gen EXCEPT ![t] = "running"]
    /\ UNCHANGED <<genOutcome, rejected, cache, mailed>>
    /\ UNCHANGED <<schedVars, archVars, scanVars, cfgVars, cronVars>>

\* do_generate: the body between is_generating = True and cache_copy, when
\* it returns early (no folders selected, no files found) or raises (in
\* scanning, in rendering, or in cache_copy before the cached file is opened)
GenBody(t) ==
    /\ gen[t] = "running"
    /\ \E o \in {"no_folders", "no_files", "error"} :
        genOutcome' = [genOutcome EXCEPT ![t] = o]
    /\ gen' = [gen EXCEPT ![t] = "finally"]
    /\ UNCHANGED <<is_generating, rejected, cache, mailed>>
    /\ UNCHANGED <<schedVars, archVars, scanVars, cfgVars, cronVars>>

\* do_generate: the report is rendered to out_path, and cache_copy opens
\* cached for writing (report.py:209): the file is in the cache directory
\* from then on, with not all of its bytes yet
GenCacheOpen(t) ==
    /\ gen[t] = "running"
    /\ cache' = Append(cache, [by |-> t, complete |-> FALSE])
    /\ gen' = [gen EXCEPT ![t] = "caching"]
    /\ UNCHANGED <<is_generating, genOutcome, rejected, mailed>>
    /\ UNCHANGED <<schedVars, archVars, scanVars, cfgVars, cronVars>>

\* cache_copy: write_bytes writes all the bytes and the body goes on with
\* latest_output_path = cached, or raises part-way (disk full) and leaves
\* the file as it is: cache_copy logs and re-raises, do_generate reports
GenCacheWrite(t, written) ==
    LET others == SelectSeq(cache, LAMBDA f : f.by # t)
    IN  /\ gen[t] = "caching"
        /\ cache' = IF written
                    THEN Append(others, [by |-> t, complete |-> TRUE])
                    ELSE cache
        /\ genOutcome' = [genOutcome EXCEPT
                            ![t] = IF written THEN "ok" ELSE "error"]
        /\ gen' = [gen EXCEPT ![t] = "finally"]
        /\ UNCHANGED <<is_generating, rejected, mailed>>
        /\ UNCHANGED <<schedVars, archVars, scanVars, cfgVars, cronVars>>

GenFinallyAfterSuccessOnly(t) ==
    /\ gen[t] = "finally"
    /\ is_generating' = IF genOutcome[t] = "ok" THEN FALSE ELSE is_generating
    /\ gen' = [gen EXCEPT ![t] = "done"]
    /\ UNCHANGED <<genOutcome, rejected, cache, mailed>>
    /\ UNCHANGED <<schedVars, archVars, scanVars, cfgVars, cronVars>>

\* do_generate: finally block
GenFinally(t) ==
    /\ gen[t] = "finally"
    /\ is_generating' = FALSE
    /\ gen' = [gen EXCEPT ![t] = "done"]
    /\ UNCHANGED <<genOutcome, rejected, cache, mailed>>
    /\ UNCHANGED <<schedVars, archVars, scanVars, cfgVars, cronVars>>

do_generate ==
    \E t \in ThreadIds :
        \/ GenStart(t)
        \/ GenBody(t)
        \/ GenCacheOpen(t)
        \/ \E written \in BOOLEAN : GenCacheWrite(t, written)
        \/ GenFinally(t)


-----------------------------------------------------------------------------
(* core/scheduler.py: text handling of schedule_job *)

Digits == {"0", "1", "2", "3", "4", "5", "6", "7", "8", "9"}

DigitVal(c) ==
    CASE c = "0" -> 0 [] c = "1" -> 1 [] c = "2" -> 2 [] c = "3" -> 3
      [] c = "4" -> 4 [] c = "5" -> 5 [] c = "6" -> 6 [] c = "7" -> 7
      [] c = "8" -> 8 [] c = "9" -> 9

\* str.split(":"): the pieces between the colons (always at least one piece)
RECURSIVE SplitColon(_)
SplitColon(s) ==
    LET at == {i \in 1..Len(s) : s[i] = ":"}
    IN  IF at = {} THEN <<s>>
        ELSE LET i == CHOOSE k \in at : \A l \in at : k <= l
             IN  <<SubSeq(s, 1, i - 1)>> \o SplitColon(SubSeq(s, i + 1, Len(s)))

\* int() first strips surrounding white space
RECURSIVE StripSpaces(_)
StripSpaces(s) ==
    IF s = <<>> THEN s
    ELSE IF Head(s) = " " THEN StripSpaces(Tail(s))
    ELSE IF s[Len(s)] = " " THEN StripSpaces(SubSeq(s, 1, Len(s) - 1))
    ELSE s

\* value of a run of decimal digits, underscores skipped
RECURSIVE DecimalValue(_, _)
DecimalValue(s, acc) ==
    IF s = <<>> THEN acc
    ELSE IF Head(s) = "_" THEN DecimalValue(Tail(s), acc)
    ELSE DecimalValue(Tail(s), 10 * acc + DigitVal(Head(s)))

\* int(x) for a str x: white space stripped, an optional sign, then decimal
\* digits with single underscores allowed between digits; anything else
\* raises ValueError (ok = FALSE)
PyInt(x) ==
    LET t    == StripSpaces(x)
        sgn  == t # <<>> /\ Head(t) \in {"+", "-"}
        body == IF sgn THEN Tail(t) ELSE t
        good == /\ body # <<>>
                /\ \A i \in 1..Len(body) : body[i] \in Digits \cup {"_"}
                /\ body[1] \in Digits
                /\ body[Len(body)] \in Digits
                /\ \A i \in 1..(Len(body) - 1) :
                        ~(body[i] = "_" /\ body[i + 1] = "_")
    IN  IF ~good THEN [ok |-> FALSE, val |-> 0]
        ELSE [ok |-> TRUE,
              val |-> IF sgn /\ Head(t) = "-" THEN 0 - DecimalValue(body, 0)
                      ELSE DecimalValue(body, 0)]

\* scheduler.py:68-74: hh, mm = [int(x) for x in time_str.split(":")] and the
\* range test; ok = FALSE stands for the except branch
ParseTime(time_str) ==
    LET parts == SplitColon(time_str)
    IN  IF Len(parts) # 2 THEN [ok |-> FALSE, hh |-> 0, mm |-> 0]
        ELSE LET h == PyInt(parts[1])
                 m == PyInt(parts[2])
             IN  IF h.ok /\ m.ok /\ 0 <= h.val /\ h.val <= 23
                                 /\ 0 <= m.val /\ m.val <= 59
                 THEN [ok |-> TRUE, hh |-> h.val, mm |-> m.val]
                 ELSE [ok |-> FALSE, hh |-> 0, mm |-> 0]

ALLOWED_FREQUENCIES ==
    {"Hourly", "Daily", "Every 2 days", "Every 3 days", "Weekly",
     "Fortnightly", "Monthly", "Every 6 months", "Yearly"}

Hours == 0..23

CronTriggerWeeklyAsDaily(frequency, hh, mm) ==
    [hour |-> IF frequency = "Hourly" THEN Hours ELSE {hh}, minute |-> mm,
     day |-> CASE frequency = "Every 2 days" -> "*/2"
               [] frequency = "Every 3 days" -> "*/3"
               [] frequency = "Fortnightly" -> "*/14"
               [] frequency \in {"Monthly", "Every 6 months", "Yearly"} -> "1"
               [] OTHER -> "*",
     day_of_week |-> "*",
     month |-> CASE frequency = "Every 6 months" -> "1,7"
                 [] frequency = "Yearly" -> "1"
                 [] OTHER -> "*"]

\* the keyword arguments of sched.add_job(func, "cron", ...) per frequency;
\* "*" is a field that is not given.  hour is kept as the set of hours the
\* field matches: every hour when it is not given, {hh} when it is.
CronTrigger(frequency, hh, mm) ==
    LET any == [hour |-> Hours, minute |-> mm, day |-> "*",
                day_of_week |-> "*", month |-> "*"]
        at  == [any EXCEPT !.hour = {hh}]
    IN  CASE frequency = "Hourly"         -> any
          [] frequency = "Daily"          -> at
          [] frequency = "Every 2 days"   -> [at EXCEPT !.day = "*/2"]
          [] frequency = "Every 3 days"   -> [at EXCEPT !.day = "*/3"]
          [] frequency = "Weekly"         -> [at EXCEPT !.day_of_week = "mon"]
          [] frequency = "Fortnightly"    -> [at EXCEPT !.day = "*/14"]
          [] frequency = "Monthly"        -> [at EXCEPT !.day = "1"]
          [] frequency = "Every 6 months" -> [at EXCEPT !.day = "1", !.month = "1,7"]
          [] frequency = "Yearly"         -> [at EXCEPT !.day = "1", !.month = "1"]

-----------------------------------------------------------------------------
(* core/scheduler.py: when a cron trigger fires.  Days are counted from a   *)
(* 1 January that is a Thursday; years have 365 days.                       *)

\* the number of days of the year before the first of each month
MonthStarts == <<0, 31, 59, 90, 120, 151, 181, 212, 243, 273, 304, 334>>

\* month and day of the month of day number d
DateOf(d) ==
    LET k == d % 365
        m == Cardinality({i \in 1..12 : MonthStarts[i] <= k})
    IN  [month |-> m, day |-> k - MonthStarts[m] + 1]

\* day of the week of day number d, 0 = Monday as in the cron trigger
Weekday(d) == (d + 3) % 7

\* the date fields of the trigger match day number d.  In a day field "*/n"
\* matches every n-th value counted from the field's minimum, which is 1 for
\* the day of the month.
DayMatches(trigger, d) ==
    LET dom   == DateOf(d).day
        month == DateOf(d).month
    IN  /\ CASE trigger.day = "*"    -> TRUE
              [] trigger.day = "*/2"  -> (dom - 1) % 2 = 0
              [] trigger.day = "*/3"  -> (dom - 1) % 3 = 0
              [] trigger.day = "*/14" -> (dom - 1) % 14 = 0
              [] trigger.day = "1"    -> dom = 1
        /\ CASE trigger.month = "*"   -> TRUE
              [] trigger.month = "1,7" -> month \in {1, 7}
              [] trigger.month = "1"   -> month = 1
        /\ CASE trigger.day_of_week = "*"   -> TRUE
              [] trigger.day_of_week = "mon" -> Weekday(d) = 0

SecondOfDay(t) == 3600 * t.hour + 60 * t.minute + t.second

At(d, h, m) == [day |-> d, hour |-> h, minute |-> m, second |-> 0]

\* the first day from d on that matches the date fields: looked for in the
\* month that follows, then in the rest of the year that follows
NextDay(trigger, d) ==
    LET soon  == {e \in d..(d + 30) : DayMatches(trigger, e)}
        later == {e \in (d + 31)..(d + 365) : DayMatches(trigger, e)}
        first(S) == CHOOSE e \in S : \A f \in S : e <= f
    IN  IF soon # {} THEN first(soon) ELSE first(later)

\* the trigger's next fire time: the first instant not before now that
\* matches every field, the second being 0
NextFire(trigger, now) ==
    LET today == {h \in trigger.hour :
                    SecondOfDay(At(now.day, h, trigger.minute)) >= SecondOfDay(now)}
        first(S) == CHOOSE h \in S : \A g \in S : h <= g
    IN  IF DayMatches(trigger, now.day) /\ today # {}
        THEN At(now.day, first(today), trigger.minute)
        ELSE At(NextDay(trigger, now.day + 1), first(trigger.hour),
                trigger.minute)

\* one second after an instant that is not the last second of its day
OneSecondLater(t) == [t EXCEPT !.second = t.second + 1]

-----------------------------------------------------------------------------
(* core/scheduler.py: the job store and the operations on it *)

JobIds == {"send_latest", "aux"}

Callbacks == {"scheduled_email_job", "other_job"}

\* the time strings and frequencies callers pass in the model
TimeInputs ==
    { <<"0", "9", ":", "0", "0">>,          \* "09:00"
      <<"2", "3", ":", "5", "9">>,          \* "23:59"
      <<"9", ":", "5">>,                    \* "9:5"
      <<" ", "9", ":", "+", "5">>,          \* " 9:+5"
      <<"2", "4", ":", "0", "0">>,          \* "24:00"
      <<"1", "2", ":", "6", "0">>,          \* "12:60"
      <<"1", ":", "2", ":", "3">>,          \* "1:2:3"
      <<"a", "b", ":", "c", "d">> }         \* "ab:cd"

FrequencyInputs == {"Daily", "Weekly", "Biweekly", ""}

NoCall == [op |-> "none"]

JobsWithId(id) == {j \in jobs : j.id = id}

HasJob(id) == JobsWithId(id) # {}

InitSched ==
    /\ jobs = {}
    /\ schedCall = NoCall
    /\ lastRet = NoCall

\* schedule_job, scheduler.py:55-60: sched.remove_job(job_id) inside
\* try/except.  The job store is locked for the removal only; the call then
\* goes on without the lock.
ScheduleJobRemove(job_id, func, time_str, frequency) ==
    /\ schedCall = NoCall
    /\ schedCall' = [op |-> "schedule_job", id |-> job_id, func |-> func,
                     time_str |-> time_str, frequency |-> frequency,
                     hadJob |-> HasJob(job_id)]
    /\ jobs' = jobs \ JobsWithId(job_id)
    /\ lastRet' = NoCall
    /\ UNCHANGED <<genVars, archVars, scanVars, cfgVars, cronVars>>

\* sched.add_job(func, "cron", id=job_id, ...): ConflictingIdError when the
\* id is already in the store (replace_existing is not passed)
AddJob(store, job_id, func, trigger) ==
    IF \E j \in store : j.id = job_id
    THEN [ok |-> FALSE, store |-> store]
    ELSE [ok |-> TRUE,
          store |-> store \cup {[id |-> job_id, func |-> func,
                                 trigger |-> trigger]}]

\* scheduler.py:62-74: the frequency test and the time test
ValidArgs(time_str, frequency) ==
    frequency \in ALLOWED_FREQUENCIES /\ ParseTime(time_str).ok

\* schedule_job, scheduler.py:62-119: frequency test, time parsing, add_job,
\* return value
ScheduleJobFinish ==
    /\ schedCall # NoCall
    /\ LET c == schedCall
           t == ParseTime(c.time_str)
           added == IF ValidArgs(c.time_str, c.frequency)
                    THEN AddJob(jobs, c.id, c.func,
                                CronTrigger(c.frequency, t.hh, t.mm))
                    ELSE [ok |-> FALSE, store |-> jobs]
       IN  /\ jobs' = added.store
           /\ lastRet' = [c EXCEPT !.op = IF added.ok THEN "schedule_job:True"
                                          ELSE "schedule_job:False"]
    /\ schedCall' = NoCall
    /\ UNCHANGED <<genVars, archVars, scanVars, cfgVars, cronVars>>

schedule_job ==
    \/ \E job_id \in JobIds, func \in Callbacks,
          time_str \in TimeInputs, frequency \in FrequencyInputs :
            ScheduleJobRemove(job_id, func, time_str, frequency)
    \/ ScheduleJobFinish

remove_job_always_true(job_id) ==
    /\ lastRet' = [op |-> "remove_job:True", id |-> job_id]
    /\ jobs' = jobs \ JobsWithId(job_id)
    /\ UNCHANGED schedCall
    /\ UNCHANGED <<genVars, archVars, scanVars, cfgVars, cronVars>>

\* remove_job, scheduler.py:121-138
remove_job(job_id) ==
    /\ lastRet' = [op |-> IF HasJob(job_id) THEN "remove_job:True"
                          ELSE "remove_job:False",
                   id |-> job_id]
    /\ jobs' = jobs \ JobsWithId(job_id)
    /\ UNCHANGED schedCall
    /\ UNCHANGED <<genVars, archVars, scanVars, cfgVars, cronVars>>

\* a schedule_job call with valid arguments is replacing the job of job_id
\* that was registered when the call began
Replacing(job_id) ==
    /\ schedCall # NoCall
    /\ schedCall.id = job_id
    /\ schedCall.hadJob
    /\ ValidArgs(schedCall.time_str, schedCall.frequency)

\* a reader of the job store (it takes the store's lock for the lookup)
Observe(who, job_id) ==
    /\ lastRet' = [op |-> who, id |-> job_id, found |-> HasJob(job_id),
                   replacing |-> Replacing(job_id)]
    /\ UNCHANGED <<jobs, schedCall>>
    /\ UNCHANGED <<genVars, archVars, scanVars, cfgVars, cronVars>>

\* get_next_run_time, scheduler.py:140-158, callable from any thread
get_next_run_time == \E job_id \in JobIds : Observe("get_next_run_time", job_id)

\* the timer thread of the BackgroundScheduler started at scheduler.py:26,
\* looking up the jobs that are due
TimerThread == \E job_id \in JobIds : Observe("timer", job_id)

NextSched ==
    \/ schedule_job
    \/ \E job_id \in JobIds : remove_job(job_id)
    \/ get_next_run_time
    \/ TimerThread

-----------------------------------------------------------------------------
(* core/scheduler.py on the calendar: a schedule_job call at an instant, the *)
(* runs of the job it registered, its removal                                *)

\* no job has been put on the calendar
NoCronJob == [registered |-> FALSE]

\* schedule_job called at now with no job registered: add_job computes the
\* job's next_run_time from the trigger; start_date is not used
ScheduleJobAt(now, start_date, time_str, frequency) ==
    /\ ~cronJob.registered
    /\ ValidArgs(time_str, frequency)
    /\ LET t == ParseTime(time_str)
           trigger == CronTrigger(frequency, t.hh, t.mm)
       IN  cronJob' = [registered |-> TRUE, start_date |-> start_date,
                       time_str |-> time_str, frequency |-> frequency,
                       trigger |-> trigger, scheduled_at |-> now,
                       next_run_time |-> NextFire(trigger, now)]
    /\ cronLast' = [op |-> "schedule_job"]
    /\ cronCount' = 0
    /\ UNCHANGED <<genVars, schedVars, archVars, scanVars, cfgVars>>

RunJobDropsOnRaise(outcome) ==
    /\ cronJob.registered
    /\ cronCount < MaxRuns
    /\ cronLast' = [op |-> "run", at |-> cronJob.next_run_time,
                    outcome |-> outcome]
    /\ cronJob' = IF outcome = "raised" THEN NoCronJob
                  ELSE [cronJob EXCEPT !.next_run_time =
                            NextFire(cronJob.trigger,
                                     OneSecondLater(cronJob.next_run_time))]
    /\ cronCount' = cronCount + 1
    /\ UNCHANGED <<genVars, schedVars, archVars, scanVars, cfgVars>>

\* the scheduler runs the job at its next_run_time: the callback returns or
\* raises (the executor logs what it raises), and the job is stored again
\* with the trigger's next fire time after this one
RunJob(outcome) ==
    /\ cronJob.registered
    /\ cronCount < MaxRuns
    /\ cronLast' = [op |-> "run", at |-> cronJob.next_run_time,
                    outcome |-> outcome]
    /\ cronJob' = [cronJob EXCEPT !.next_run_time =
                        NextFire(cronJob.trigger,
                                 OneSecondLater(cronJob.next_run_time))]
    /\ cronCount' = cronCount + 1
    /\ UNCHANGED <<genVars, schedVars, archVars, scanVars, cfgVars>>

\* remove_job of the registered job
RemoveJobAt ==
    /\ cronJob.registered
    /\ cronJob' = NoCronJob
    /\ cronLast' = [op |-> "remove_job"]
    /\ cronCount' = 0
    /\ UNCHANGED <<genVars, schedVars, archVars, scanVars, cfgVars>>

\* the calls are made on the days around the ends of weeks, months,
\* half-years and years, at four times of the day
NextCron ==
    \/ /\ ~cronJob.registered
       /\ \E now \in {[day |-> d, hour |-> t[1], minute |-> t[2], second |-> t[3]] :
                        d \in (0..7) \cup (27..32) \cup {57, 58, 59, 180, 181, 363, 364},
                        t \in {<<0, 0, 0>>, <<9, 0, 0>>, <<9, 0, 30>>, <<23, 59, 30>>}},
             start_date \in {"2026-01-05", "2030-06-15"},
             time_str \in TimeInputs,
             frequency \in ALLOWED_FREQUENCIES :
            ScheduleJobAt(now, start_date, time_str, frequency)
    \/ \E outcome \in {"returned", "raised"} : RunJob(outcome)
    \/ RemoveJobAt

-----------------------------------------------------------------------------
(* storage.py: names inside the archive directory *)

ForbiddenChars == {"\\", "/", ":", "*", "?", "\"", "<", ">", "|"}

ReportPdf == <<"r", "e", "p", "o", "r", "t", ".", "p", "d", "f">>

RECURSIVE RemoveForbidden(_)
RemoveForbidden(s) ==
    IF s = <<>> THEN s
    ELSE IF Head(s) \in ForbiddenChars THEN RemoveForbidden(Tail(s))
    ELSE <<Head(s)>> \o RemoveForbidden(Tail(s))

\* storage.py:52: drop the forbidden characters, strip, fall back to report.pdf
Sanitize(preferred_name) ==
    LET t == StripSpaces(RemoveForbidden(preferred_name))
    IN  IF t = <<>> THEN ReportPdf ELSE t

\* str.rfind("."), counted from 1; 0 when there is no dot
LastDot(s) ==
    LET at == {i \in 1..Len(s) : s[i] = "."}
    IN  IF at = {} THEN 0 ELSE CHOOSE k \in at : \A l \in at : l <= k

\* storage.py:55-59: no extension when there is no dot or only a leading one
SplitExt(base) ==
    LET p == LastDot(base)
    IN  IF p <= 1 THEN [stem |-> base, ext |-> <<>>]
        ELSE [stem |-> SubSeq(base, 1, p - 1), ext |-> SubSeq(base, p, Len(base))]

DigitChar(d) == CHOOSE c \in Digits : DigitVal(c) = d

\* the decimal text of n, as the f-string writes it
RECURSIVE NatToStr(_)
NatToStr(n) ==
    IF n < 10 THEN <<DigitChar(n)>>
    ELSE NatToStr(n \div 10) \o <<DigitChar(n % 10)>>

\* f"{stem} ({n}){ext}"
Numbered(stem, n, ext) == stem \o <<" ", "(">> \o NatToStr(n) \o <<")">> \o ext

\* storage.py:61-66: the while loop over candidate.exists()
RECURSIVE FirstFree(_, _, _, _)
FirstFree(stem, ext, n, taken) ==
    IF Numbered(stem, n, ext) \notin taken THEN Numbered(stem, n, ext)
    ELSE FirstFree(stem, ext, n + 1, taken)

unique_dest_no_check(preferred_name, taken) ==
    LET se == SplitExt(Sanitize(preferred_name))
    IN  se.stem \o se.ext

\* _unique_dest; taken is the set of names that exist in APP_DIR
unique_dest(preferred_name, taken) ==
    LET se == SplitExt(Sanitize(preferred_name))
    IN  IF se.stem \o se.ext \notin taken THEN se.stem \o se.ext
        ELSE FirstFree(se.stem, se.ext, 2, taken)

\* pathlib's Path.stem: the name without its last suffix
PathStem(name) ==
    LET p == LastDot(name)
    IN  IF 1 < p /\ p < Len(name) THEN SubSeq(name, 1, p - 1) ELSE name

-----------------------------------------------------------------------------
(* storage.py: the archive store *)

IndexName == <<"i", "n", "d", "e", "x", ".", "j", "s", "o", "n">>

DotPdf == <<".", "p", "d", "f">>

\* the values time.time() and the sources' modification times take
Times == {0, 1}

NoHint == <<>>

\* the calls of save_report_copy in the model: the source file (file name,
\* size in bytes, modification time) and the title_hint argument
SaveCalls ==
    { [src |-> [name |-> <<"a", ".", "p", "d", "f">>,             \* "a.pdf"
                size |-> 1, mtime |-> 0],
       title_hint |-> NoHint],
      [src |-> [name |-> <<":", "a", ".", "p", "d", "f", " ">>,   \* ":a.pdf "
                size |-> 2, mtime |-> 1],
       title_hint |-> <<"T">>],
      [src |-> [name |-> <<"a", " ", "(", "2", ")", ".", "p", "d", "f">>,
                size |-> 3, mtime |-> 0],                         \* "a (2).pdf"
       title_hint |-> <<"T">>],
      [src |-> [name |-> <<".", "a">>,                            \* ".a"
                size |-> 4, mtime |-> 1],
       title_hint |-> NoHint] }

\* a name that is never stored in the archive
AbsentName == <<"z", ".", "p", "d", "f">>

AppDir == "APP_DIR"

AppPath(name) == [dir |-> AppDir, name |-> name]

NoPath == [dir |-> "", name |-> <<>>]

MissingIndex == [state |-> "missing", items |-> <<>>]

CorruptIndex == [state |-> "corrupt", items |-> <<>>]

OkIndex(items) == [state |-> "ok", items |-> items]

NoRet == [op |-> "none"]

InitArch ==
    /\ files = <<>>
    /\ index = MissingIndex
    /\ clock = 0
    /\ archRet = NoRet

\* ensure_repo: index.json is written as "[]" when it does not exist
EnsureRepo(idx) == IF idx.state = "missing" THEN OkIndex(<<>>) ELSE idx

\* _load_index: ensure_repo, then the parsed list, [] when it cannot be parsed
LoadIndex(idx) == EnsureRepo(idx).items

\* the names that exist in APP_DIR once ensure_repo has run
Existing == DOMAIN files \cup {IndexName}

Without(f, name) == [n \in DOMAIN f \ {name} |-> f[n]]

ensure_repo ==
    /\ index' = EnsureRepo(index)
    /\ archRet' = [op |-> "ensure_repo"]
    /\ UNCHANGED <<files, clock>>
    /\ UNCHANGED <<genVars, schedVars, scanVars, cfgVars, cronVars>>

SaveMissingSourceChecksLate(src_name, title_hint) ==
    /\ index' = OkIndex(Append(LoadIndex(index),
                               [ts |-> clock, name |-> src_name,
                                title |-> title_hint, size |-> 0,
                                path |-> AppPath(src_name),
                                original_name |-> src_name]))
    /\ archRet' = [op |-> "save_report_copy", src_name |-> src_name,
                   src_exists |-> FALSE,
                   raised |-> "FileNotFoundError", ret |-> NoPath]
    /\ UNCHANGED <<files, clock>>
    /\ UNCHANGED <<genVars, schedVars, scanVars, cfgVars, cronVars>>

\* save_report_copy, source missing: FileNotFoundError after ensure_repo
SaveMissingSource(src_name, title_hint) ==
    /\ index' = EnsureRepo(index)
    /\ archRet' = [op |-> "save_report_copy", src_name |-> src_name,
                   src_exists |-> FALSE,
                   raised |-> "FileNotFoundError", ret |-> NoPath]
    /\ UNCHANGED <<files, clock>>
    /\ UNCHANGED <<genVars, schedVars, scanVars, cfgVars, cronVars>>

SaveCopyRewritesIndex(src, title_hint, now) ==
    /\ Cardinality(DOMAIN files) < MaxFiles
    /\ src.mtime <= now
    /\ clock <= now
    /\ LET dst  == unique_dest(src.name, Existing)
           item == [ts |-> now, name |-> dst,
                    title |-> IF title_hint = NoHint THEN PathStem(src.name)
                              ELSE title_hint,
                    size |-> src.size, path |-> AppPath(dst),
                    original_name |-> src.name]
       IN  /\ files' = files @@ (dst :> [size |-> src.size, mtime |-> src.mtime])
           /\ index' = OkIndex(<<item>>)
           /\ archRet' = [op |-> "save_report_copy", src_name |-> src.name,
                          src_exists |-> TRUE,
                          raised |-> "", ret |-> AppPath(dst)]
    /\ clock' = now
    /\ UNCHANGED <<genVars, schedVars, scanVars, cfgVars, cronVars>>

\* save_report_copy, source present: _unique_dest, copy2 (which keeps the
\* source's size and modification time), append the item, save the index
SaveCopy(src, title_hint, now) ==
    /\ Cardinality(DOMAIN files) < MaxFiles
    /\ src.mtime <= now
    /\ clock <= now
    /\ LET dst  == unique_dest(src.name, Existing)
           item == [ts |-> now, name |-> dst,
                    title |-> IF title_hint = NoHint THEN PathStem(src.name)
                              ELSE title_hint,
                    size |-> src.size, path |-> AppPath(dst),
                    original_name |-> src.name]
       IN  /\ files' = files @@ (dst :> [size |-> src.size, mtime |-> src.mtime])
           /\ index' = OkIndex(Append(LoadIndex(index), item))
           /\ archRet' = [op |-> "save_report_copy", src_name |-> src.name,
                          src_exists |-> TRUE,
                          raised |-> "", ret |-> AppPath(dst)]
    /\ clock' = now
    /\ UNCHANGED <<genVars, schedVars, scanVars, cfgVars, cronVars>>

save_report_copy ==
    \E call \in SaveCalls :
        \/ SaveMissingSource(call.src.name, call.title_hint)
        \/ \E now \in Times : SaveCopy(call.src, call.title_hint, now)

SortByTsDesc_not_sorted(items) == items

\* items.sort(key=ts, reverse=True): stable, equal keys keep their order
RECURSIVE SortByTsDesc(_)
SortByTsDesc(items) ==
    IF items = <<>> THEN <<>>
    ELSE LET front == SortByTsDesc(SubSeq(items, 1, Len(items) - 1))
             x     == items[Len(items)]
             keep  == {i \in 1..Len(front) : front[i].ts >= x.ts}
             k     == Cardinality(keep)
         IN  SubSeq(front, 1, k) \o <<x>> \o SubSeq(front, k + 1, Len(front))

EndsWith(s, suffix) ==
    /\ Len(s) >= Len(suffix)
    /\ SubSeq(s, Len(s) - Len(suffix) + 1, Len(s)) = suffix

\* APP_DIR.glob("*.pdf")
GlobPdf == {n \in DOMAIN files : EndsWith(n, DotPdf)}

\* the orders in which a directory listing can enumerate a set of names
Orders(S) ==
    {o \in [1..Cardinality(S) -> S] : \A i, j \in 1..Cardinality(S) :
                                            o[i] = o[j] => i = j}

\* the item list_reports builds for a file; ts is int(st.st_mtime),
\* modification times being counted in whole seconds
RebuiltItem(name) ==
    [ts |-> files[name].mtime, name |-> name, title |-> PathStem(name),
     size |-> files[name].size, path |-> AppPath(name),
     original_name |-> name]

\* list_reports: load the index; when it is empty rebuild it from the *.pdf
\* files and save it; return the items sorted newest first
list_reports ==
    /\ LET loaded == LoadIndex(index)
       IN  IF loaded = <<>>
           THEN \E o \in Orders(GlobPdf) :
                    LET items == [i \in 1..Len(o) |-> RebuiltItem(o[i])]
                    IN  /\ index' = OkIndex(items)
                        /\ archRet' = [op |-> "list_reports",
                                       ret |-> SortByTsDesc(items)]
           ELSE /\ index' = EnsureRepo(index)
                /\ archRet' = [op |-> "list_reports",
                               ret |-> SortByTsDesc(loaded)]
    /\ UNCHANGED <<files, clock>>
    /\ UNCHANGED <<genVars, schedVars, scanVars, cfgVars, cronVars>>

\* what callers pass to delete_report: a bare file name or an absolute path
BareName(name) == [absolute |-> FALSE, dir |-> "", name |-> name]

AbsolutePath(name) == [absolute |-> TRUE, dir |-> AppDir, name |-> name]

\* storage.py:140-143: a relative argument is resolved against APP_DIR
ResolveArg(path_or_name) ==
    IF path_or_name.absolute
    THEN [dir |-> path_or_name.dir, name |-> path_or_name.name]
    ELSE AppPath(path_or_name.name)

\* storage.py:155: the items whose path differs from p
KeepOthers(items, p) == SelectSeq(items, LAMBDA it : it.path # p)

DeletedFlagUnlinkOnly(unlinked, rewritten) == unlinked

\* storage.py:145-160: deleted is set when the file was unlinked and when the
\* index lost an item
DeletedFlag(unlinked, rewritten) == unlinked \/ rewritten

\* delete_report; unlink_fails: p.unlink() raises (file in use, permission
\* denied) and the except clause swallows it.  p may be index.json itself,
\* which exists once ensure_repo has run: it is unlinked like any file, and
\* _load_index then finds the "[]" that its ensure_repo writes.
delete_report(path_or_name, unlink_fails) ==
    /\ LET p         == ResolveArg(path_or_name)
           present   == p.dir = AppDir /\ p.name \in Existing
           unlinked  == present /\ ~unlink_fails
           unindexed == unlinked /\ p.name = IndexName
           items     == IF unindexed THEN <<>> ELSE LoadIndex(index)
           new_items == KeepOthers(items, p)
           rewritten == Len(new_items) # Len(items)
       IN  /\ unlink_fails => present
           /\ files' = IF unlinked /\ ~unindexed THEN Without(files, p.name)
                       ELSE files
           /\ index' = IF rewritten THEN OkIndex(new_items)
                       ELSE IF unindexed THEN OkIndex(<<>>)
                       ELSE EnsureRepo(index)
           /\ archRet' = [op |-> "delete_report", arg |-> path_or_name,
                          ret |-> DeletedFlag(unlinked, rewritten),
                          unlink_fails |-> unlink_fails]
    /\ UNCHANGED clock
    /\ UNCHANGED <<genVars, schedVars, scanVars, cfgVars, cronVars>>

IndexedNames == {index.items[i].name : i \in 1..Len(index.items)}

delete_report_any ==
    \E name \in DOMAIN files \cup IndexedNames \cup {AbsentName, IndexName},
       unlink_fails \in BOOLEAN :
        \/ delete_report(BareName(name), unlink_fails)
        \/ delete_report(AbsolutePath(name), unlink_fails)

\* index.json removed or damaged from outside the program
IndexLost ==
    /\ index.state # "missing"
    /\ index' = MissingIndex
    /\ archRet' = NoRet
    /\ UNCHANGED <<files, clock>>
    /\ UNCHANGED <<genVars, schedVars, scanVars, cfgVars, cronVars>>

IndexDamaged ==
    /\ index.state # "corrupt"
    /\ index' = CorruptIndex
    /\ archRet' = NoRet
    /\ UNCHANGED <<files, clock>>
    /\ UNCHANGED <<genVars, schedVars, scanVars, cfgVars, cronVars>>

NextArch ==
    \/ ensure_repo
    \/ save_report_copy
    \/ list_reports
    \/ delete_report_any
    \/ IndexLost
    \/ IndexDamaged

-----------------------------------------------------------------------------
(* core/scanner.py: the folder trees that are scanned *)

\* the folders argument of scan_folders
folders == <<"r1", "r2">>

Roots == {"r1", "r2"}

\* os.walk(root), top down: the directories of a root in the order visited
DirsOf(root) == IF root = "r1" THEN <<"r1", "r1/sub">> ELSE <<"r2">>

RootOf(dir) == IF dir = "r2" THEN "r2" ELSE "r1"

\* the places where a non-directory entry can be: <<directory, name>>
Slots == {<<"r1", "a">>, <<"r1", "b">>, <<"r1/sub", "a">>, <<"r2", "a">>}

\* what is at a place: nothing; a regular file; a symbolic link to a regular
\* file; an entry whose stat() fails (no permission, dangling link); a
\* special file (fifo, socket, device)
Kinds == {"none", "reg", "symlink", "denied", "fifo"}

NoSlot == <<"", "">>

\* os.walk's filenames for a directory: every non-directory entry in it
Listing(dir) == {s[2] : s \in {t \in Slots : t[1] = dir /\ tree[t] # "none"}}

InitScan ==
    /\ rootExists \in [Roots -> BOOLEAN]
    /\ tree \in [Slots -> Kinds]
    /\ \A s \in Slots : ~rootExists[RootOf(s[1])] => tree[s] = "none"
    /\ scanPc = "count_root"
    /\ ri = 1
    /\ dq = <<>>
    /\ curDir = ""
    /\ pending = <<>>
    /\ cur = NoSlot
    /\ total_files = 0
    /\ processed = 0
    /\ rows = <<>>
    /\ calls = <<>>
    /\ touched = {}
    /\ touchedRoots = {}
    /\ envChanges = 0

scanEnv == <<tree, rootExists, touched, touchedRoots, envChanges>>

\* scanner.py:47-51, per root: if root.exists(): for ... in os.walk(root)
CountRoot ==
    /\ scanPc = "count_root"
    /\ IF ri > Len(folders)
       THEN /\ scanPc' = "walk_root"
            /\ ri' = 1
            /\ dq' = <<>>
       ELSE IF rootExists[folders[ri]]
       THEN /\ scanPc' = "count_dir"
            /\ dq' = DirsOf(folders[ri])
            /\ ri' = ri
       ELSE /\ scanPc' = "count_root"
            /\ ri' = ri + 1
            /\ dq' = <<>>
    /\ UNCHANGED <<curDir, pending, cur, total_files, processed, rows, calls>>
    /\ UNCHANGED scanEnv
    /\ UNCHANGED <<genVars, schedVars, archVars, cfgVars, cronVars>>

\* scanner.py:50-51, per directory: total_files += len(filenames)
CountDir ==
    /\ scanPc = "count_dir"
    /\ total_files' = total_files + Cardinality(Listing(Head(dq)))
    /\ dq' = Tail(dq)
    /\ IF Tail(dq) = <<>>
       THEN scanPc' = "count_root" /\ ri' = ri + 1
       ELSE scanPc' = "count_dir" /\ ri' = ri
    /\ UNCHANGED <<curDir, pending, cur, processed, rows, calls>>
    /\ UNCHANGED scanEnv
    /\ UNCHANGED <<genVars, schedVars, archVars, cfgVars, cronVars>>

\* scanner.py:55-58, per root: a root that does not exist is skipped
WalkRoot ==
    /\ scanPc = "walk_root"
    /\ IF ri > Len(folders)
       THEN /\ scanPc' = "done"
            /\ ri' = ri
            /\ dq' = <<>>
       ELSE IF rootExists[folders[ri]]
       THEN /\ scanPc' = "walk_list"
            /\ dq' = DirsOf(folders[ri])
            /\ ri' = ri
       ELSE /\ scanPc' = "walk_root"
            /\ ri' = ri + 1
            /\ dq' = <<>>
    /\ UNCHANGED <<curDir, pending, cur, total_files, processed, rows, calls>>
    /\ UNCHANGED scanEnv
    /\ UNCHANGED <<genVars, schedVars, archVars, cfgVars, cronVars>>

\* scanner.py:61: os.walk lists the next directory, in the order the
\* operating system enumerates it
WalkList ==
    /\ scanPc = "walk_list"
    /\ IF dq = <<>>
       THEN /\ scanPc' = "walk_root"
            /\ ri' = ri + 1
            /\ UNCHANGED <<dq, pending, curDir>>
       ELSE /\ \E o \in Orders(Listing(Head(dq))) : pending' = o
            /\ curDir' = Head(dq)
            /\ dq' = Tail(dq)
            /\ scanPc' = "walk_stat"
            /\ ri' = ri
    /\ UNCHANGED <<cur, total_files, processed, rows, calls>>
    /\ UNCHANGED scanEnv
    /\ UNCHANGED <<genVars, schedVars, archVars, cfgVars, cronVars>>

\* p.stat() follows symbolic links: it fails for what is gone or denied
StatFails(kind) == kind \in {"none", "denied"}

IsRegLstat(kind) == kind = "reg"

\* stat.S_ISREG(st.st_mode) on the result of p.stat(): the mode of the link's
\* target
S_ISREG(kind) == kind \in {"reg", "symlink"}

ProgressBeforeIncrement(log, done) ==
    Append(log, [done |-> done - 1, total |-> total_files])

\* processed += 1; callback(processed, total_files)
Progress(log, done) == Append(log, [done |-> done, total |-> total_files])

\* scanner.py:62-79: the next file name, p.stat(), the S_ISREG test
WalkStat ==
    /\ scanPc = "walk_stat"
    /\ IF pending = <<>>
       THEN /\ scanPc' = "walk_list"
            /\ UNCHANGED <<pending, cur, processed, calls>>
       ELSE LET p == <<curDir, Head(pending)>>
            IN  IF StatFails(tree[p]) \/ ~S_ISREG(tree[p])
                THEN /\ processed' = processed + 1
                     /\ calls' = Progress(calls, processed + 1)
                     /\ pending' = Tail(pending)
                     /\ scanPc' = "walk_stat"
                     /\ cur' = NoSlot
                ELSE /\ cur' = p
                     /\ scanPc' = "walk_mtime"
                     /\ UNCHANGED <<pending, processed, calls>>
    /\ UNCHANGED <<ri, dq, curDir, total_files, rows>>
    /\ UNCHANGED scanEnv
    /\ UNCHANGED <<genVars, schedVars, archVars, cfgVars, cronVars>>

\* scanner.py:81-95: _modified_dt(p) stats the path a second time, outside
\* the inner try; when it raises, the except of scanner.py:97 ends the walk
\* of this root.  Otherwise the row is appended and progress reported.
WalkMtime ==
    /\ scanPc = "walk_mtime"
    /\ IF StatFails(tree[cur])
       THEN /\ scanPc' = "walk_root"
            /\ ri' = ri + 1
            /\ dq' = <<>>
            /\ pending' = <<>>
            /\ UNCHANGED <<processed, rows, calls>>
       ELSE /\ rows' = Append(rows, [file_path |-> cur, was |-> tree[cur]])
            /\ processed' = processed + 1
            /\ calls' = Progress(calls, processed + 1)
            /\ pending' = Tail(pending)
            /\ scanPc' = "walk_stat"
            /\ UNCHANGED <<ri, dq>>
    /\ cur' = NoSlot
    /\ UNCHANGED <<curDir, total_files>>
    /\ UNCHANGED scanEnv
    /\ UNCHANGED <<genVars, schedVars, archVars, cfgVars, cronVars>>

scan_folders == CountRoot \/ CountDir \/ WalkRoot \/ WalkList \/ WalkStat \/ WalkMtime

scanProg == <<scanPc, ri, dq, pending, curDir, cur, total_files, processed,
              rows, calls>>

Scanning == scanPc # "done"

\* other programs change the tree while the scan runs
FileVanishes(s) ==
    /\ Scanning /\ envChanges < MaxEnvChanges
    /\ tree[s] # "none"
    /\ tree' = [tree EXCEPT ![s] = "none"]
    /\ touched' = touched \cup {s}
    /\ envChanges' = envChanges + 1
    /\ UNCHANGED <<rootExists, touchedRoots>>
    /\ UNCHANGED scanProg
    /\ UNCHANGED <<genVars, schedVars, archVars, cfgVars, cronVars>>

FileAppears(s) ==
    /\ Scanning /\ envChanges < MaxEnvChanges
    /\ tree[s] = "none"
    /\ rootExists[RootOf(s[1])]
    /\ tree' = [tree EXCEPT ![s] = "reg"]
    /\ touched' = touched \cup {s}
    /\ envChanges' = envChanges + 1
    /\ UNCHANGED <<rootExists, touchedRoots>>
    /\ UNCHANGED scanProg
    /\ UNCHANGED <<genVars, schedVars, archVars, cfgVars, cronVars>>

RootVanishes(r) ==
    /\ Scanning /\ envChanges < MaxEnvChanges
    /\ rootExists[r]
    /\ rootExists' = [rootExists EXCEPT ![r] = FALSE]
    /\ tree' = [s \in Slots |-> IF RootOf(s[1]) = r THEN "none" ELSE tree[s]]
    /\ touched' = touched \cup {s \in Slots : RootOf(s[1]) = r}
    /\ touchedRoots' = touchedRoots \cup {r}
    /\ envChanges' = envChanges + 1
    /\ UNCHANGED scanProg
    /\ UNCHANGED <<genVars, schedVars, archVars, cfgVars, cronVars>>

RootAppears(r) ==
    /\ Scanning /\ envChanges < MaxEnvChanges
    /\ ~rootExists[r]
    /\ rootExists' = [rootExists EXCEPT ![r] = TRUE]
    /\ touchedRoots' = touchedRoots \cup {r}
    /\ envChanges' = envChanges + 1
    /\ UNCHANGED <<tree, touched>>
    /\ UNCHANGED scanProg
    /\ UNCHANGED <<genVars, schedVars, archVars, cfgVars, cronVars>>

TreeChanges ==
    \/ \E s \in Slots : FileVanishes(s) \/ FileAppears(s)
    \/ \E r \in Roots : RootVanishes(r) \/ RootAppears(r)

NextScan == scan_folders \/ TreeChanges

-----------------------------------------------------------------------------
(* core/report.py: neglect_days / color_state *)

SecondsPerDay == 86400

neglect_days_no_clamp(now, modified) ==
    [num |-> now - modified, den |-> SecondsPerDay]

\* neglect_days: max(delta.total_seconds(), 0.0) / 86400.0; the quotient is
\* kept as the fraction num/den, instants are counted in seconds
neglect_days(now, modified) ==
    [num |-> IF now - modified > 0 THEN now - modified ELSE 0,
     den |-> SecondsPerDay]

\* math.floor of a fraction
Floor(x) == x.num \div x.den

color_state_green_first(days, red, amber, green) ==
    LET d == Floor(days)
    IN  IF green[1] <= d /\ d <= green[2] THEN "green"
        ELSE IF amber[1] <= d /\ d <= amber[2] THEN "amber"
        ELSE IF red[1] <= d /\ d <= red[2] THEN "red"
        ELSE ""

\* color_state: the first of red, amber, green whose inclusive range holds
\* floor(days); "" when none does
color_state(days, red, amber, green) ==
    LET d == Floor(days)
    IN  IF red[1] <= d /\ d <= red[2] THEN "red"
        ELSE IF amber[1] <= d /\ d <= amber[2] THEN "amber"
        ELSE IF green[1] <= d /\ d <= green[2] THEN "green"
        ELSE ""

format_neglect_time_total_hours(days) ==
    LET Trunc(n, d) == IF n >= 0 THEN n \div d ELSE -((-n) \div d)
        Str(n)      == IF n < 0 THEN <<"-">> \o NatToStr(-n) ELSE NatToStr(n)
        whole_days  == Trunc(days.num, days.den)
        hours       == Trunc(days.num * 24, days.den)
    IN  Str(whole_days) \o <<" ", "d", "a", "y", "s", " ">>
            \o (IF 0 <= hours /\ hours < 10 THEN <<"0">> ELSE <<>>) \o Str(hours)
            \o <<" ", "h">>

\* format_neglect_time: whole_days = int(days), which truncates towards 0,
\* hours = int((days - whole_days) * 24), f"{whole_days} days {hours:02d} h".
\* The arithmetic is that of the fraction; the ages of the model are not
\* within a rounding error of a whole hour.
format_neglect_time(days) ==
    LET Trunc(n, d) == IF n >= 0 THEN n \div d ELSE -((-n) \div d)
        Str(n)      == IF n < 0 THEN <<"-">> \o NatToStr(-n) ELSE NatToStr(n)
        whole_days  == Trunc(days.num, days.den)
        hours       == Trunc((days.num - whole_days * days.den) * 24, days.den)
    IN  Str(whole_days) \o <<" ", "d", "a", "y", "s", " ">>
            \o (IF 0 <= hours /\ hours < 10 THEN <<"0">> ELSE <<>>) \o Str(hours)
            \o <<" ", "h">>

-----------------------------------------------------------------------------
(* core/config.py: Thresholds, Schedule, Config, load_config, save_config *)

\* the defaults of the Thresholds dataclass
DefaultThresholds == [red |-> <<15, 20>>, amber |-> <<4, 14>>, green |-> <<0, 3>>]

\* an Optional field: None, or a value
None == [some |-> FALSE]

Some(v) == [some |-> TRUE, val |-> v]

\* the defaults of the Schedule dataclass
NoSchedule == [date |-> None, time |-> None, frequency |-> None]

\* Config(): the defaults of the Config dataclass
DefaultConfig ==
    [recipients |-> <<>>, api_key |-> <<>>,
     thresholds |-> DefaultThresholds, schedule |-> NoSchedule]

validate_overlaps(a, b) == ~(a[2] < b[1] \/ b[2] < a[1])

\* Thresholds.validate, config.py:16-40
validate(th) ==
    LET ranges == <<th.red, th.amber, th.green>>
    IN  /\ \A i \in 1..3 : /\ ~(ranges[i][1] < 0 \/ ranges[i][2] < 0)
                           /\ ~(ranges[i][1] > ranges[i][2])
                           /\ ~(ranges[i][2] > 365)
        /\ ~validate_overlaps(th.red, th.amber)
        /\ ~validate_overlaps(th.red, th.green)
        /\ ~validate_overlaps(th.amber, th.green)

\* a JSON array, as a threshold range is written in config.json
JsonArray(items) == [json |-> "array", items |-> items]

\* config.json as json.dumps(asdict(cfg)) writes it: the tuples of the
\* thresholds become arrays
OkConfig(data) ==
    [state |-> "ok",
     data |-> [data EXCEPT !.thresholds =
                    [red   |-> JsonArray(data.thresholds.red),
                     amber |-> JsonArray(data.thresholds.amber),
                     green |-> JsonArray(data.thresholds.green)]]]

\* no config.json, and one that json.loads cannot parse; data is not read
MissingConfig == [OkConfig(DefaultConfig) EXCEPT !.state = "missing"]

CorruptConfig == [OkConfig(DefaultConfig) EXCEPT !.state = "corrupt"]

\* load_config: the defaults when config.json is missing, cannot be parsed,
\* or makes tuple() raise (a threshold that is a number, not an array); else
\* the fields of the file as they are, tuple() of each threshold array
\* whatever its length.  Nothing is validated.
load_config(file) ==
    LET th == file.data.thresholds
    IN  IF file.state # "ok" THEN DefaultConfig
        ELSE IF \E v \in {th.red, th.amber, th.green} : v.json # "array"
        THEN DefaultConfig
        ELSE [file.data EXCEPT !.thresholds = [red   |-> th.red.items,
                                               amber |-> th.amber.items,
                                               green |-> th.green.items]]

\* save_config: config.json rewritten with asdict(cfg); write_ok = FALSE is
\* the except branch (the file cannot be written)
save_config(c, file, write_ok) ==
    IF write_ok THEN [ok |-> TRUE, file |-> OkConfig(c)]
    ELSE [ok |-> FALSE, file |-> file]

-----------------------------------------------------------------------------
(* app.py: the thresholds of the settings tab, and their use *)

\* what the user has typed into the two Entry fields of a range
BaseTexts ==
    { << <<"0">>, <<"1">> >>,
      << <<"2">>, <<"2">> >> }

RangeTexts ==
    BaseTexts \cup
    { << <<" ", "4">>, <<"+", "3", "6", "5">> >>,
      << <<"1">>, <<"3", "6", "5">> >>,
      << <<"4">>, <<"3", "6", "6">> >>,
      << <<"-", "1">>, <<"0">> >>,
      << <<"1">>, <<"0">> >>,
      << <<"x">>, <<"1">> >> }

NoCfgRet == [op |-> "none"]

\* app.py:20: cfg = load_config() when the program starts
InitCfg ==
    /\ config_file = MissingConfig
    /\ cfg = load_config(config_file)
    /\ cfgRet = NoCfgRet

\* int(v.get()) for every text the fields hold in the model
EntryInt == [x \in UNION {{r[1], r[2]} : r \in RangeTexts} |-> PyInt(x)]

overlaps_strict(a, b) == ~(a[2] <= b[1] \/ b[2] <= a[1])

\* save_thresh, app.py:572-573
overlaps(a, b) == ~(a[2] < b[1] \/ b[2] < a[1])

\* save_thresh, app.py:560-569: the test of one range
RangeOk(r) == ~(r[1] < 0 \/ r[2] < 0) /\ ~(r[1] > r[2]) /\ ~(r[2] > 365)

\* save_thresh: int() of the six fields, the range tests, the overlap test,
\* cfg.thresholds = Thresholds(red, amber, green), save_config
save_thresh(red_t, amber_t, green_t, write_ok) ==
    LET ints == [k \in 1..6 |-> EntryInt[<<red_t[1], red_t[2], amber_t[1],
                                        amber_t[2], green_t[1], green_t[2]>>[k]]]
        red   == <<ints[1].val, ints[2].val>>
        amber == <<ints[3].val, ints[4].val>>
        green == <<ints[5].val, ints[6].val>>
        th    == [red |-> red, amber |-> amber, green |-> green]
        saved == save_config([cfg EXCEPT !.thresholds = th], config_file,
                             write_ok)
        texts == [red |-> red_t, amber |-> amber_t, green |-> green_t]
    IN  /\ IF \E k \in 1..6 : ~ints[k].ok
           THEN /\ cfgRet' = [op |-> "save_thresh", texts |-> texts,
                              shown |-> "Invalid Input"]
                /\ UNCHANGED <<cfg, config_file>>
           ELSE IF ~(RangeOk(red) /\ RangeOk(amber) /\ RangeOk(green))
           THEN /\ cfgRet' = [op |-> "save_thresh", texts |-> texts,
                              shown |-> "Invalid Range"]
                /\ UNCHANGED <<cfg, config_file>>
           ELSE IF overlaps(red, amber) \/ overlaps(red, green)
                                        \/ overlaps(amber, green)
           THEN /\ cfgRet' = [op |-> "save_thresh", texts |-> texts,
                              shown |-> "Overlap Detected"]
                /\ UNCHANGED <<cfg, config_file>>
           ELSE /\ cfg' = [cfg EXCEPT !.thresholds = th]
                /\ config_file' = saved.file
                /\ cfgRet' = [op |-> "save_thresh", texts |-> texts,
                              shown |-> IF saved.ok THEN "Saved" ELSE "Error"]
        /\ UNCHANGED <<genVars, schedVars, archVars, scanVars, cronVars>>

\* do_generate, app.py:237-243: the state of one row of the report
RowState(now, modified) ==
    /\ cfgRet' = [op |-> "color_state", now |-> now, modified |-> modified,
                  state |-> color_state(neglect_days(now, modified),
                                        cfg.thresholds.red,
                                        cfg.thresholds.amber,
                                        cfg.thresholds.green),
                  neglect_s |-> format_neglect_time(neglect_days(now, modified))]
    /\ UNCHANGED <<cfg, config_file>>
    /\ UNCHANGED <<genVars, schedVars, archVars, scanVars, cronVars>>

\* Save Thresholds clicked with the red, amber and green fields filled in (at
\* least two of the three ranges are among the first two texts); a report
\* row computed for a file modified at one instant (seconds) and reported at
\* another
NextThresh ==
    \/ \E t \in {u \in RangeTexts \X RangeTexts \X RangeTexts :
                    Cardinality({i \in 1..3 : u[i] \in BaseTexts}) >= 2},
          write_ok \in BOOLEAN :
            save_thresh(t[1], t[2], t[3], write_ok)
    \/ \E now \in {0, SecondsPerDay - 1, SecondsPerDay,
                    SecondsPerDay + 7202, 2 * SecondsPerDay,
                    5 * SecondsPerDay, 25 * SecondsPerDay + 1,
                    366 * SecondsPerDay - 1, 366 * SecondsPerDay},
          modified \in {0, 1, SecondsPerDay} :
            RowState(now, modified)

-----------------------------------------------------------------------------
(* core/config.py: validate_email_list *)

\* email_pattern.match: ^[a-zA-Z0-9._%+-]+@[a-zA-Z0-9.-]+\.[a-zA-Z]{2,}$
MatchesEmail(e) ==
    LET Letters == {"a", "b", "c", "d", "e", "f", "g", "h", "i", "j", "k", "l",
                    "m", "n", "o", "p", "q", "r", "s", "t", "u", "v", "w", "x",
                    "y", "z", "A", "B", "C", "D", "E", "F", "G", "H", "I", "J",
                    "K", "L", "M", "N", "O", "P", "Q", "R", "S", "T", "U", "V",
                    "W", "X", "Y", "Z"}
        LocalChars  == Letters \cup Digits \cup {".", "_", "%", "+", "-"}
        DomainChars == Letters \cup Digits \cup {".", "-"}
        AllIn(str, chars) == \A i \in 1..Len(str) : str[i] \in chars
    IN
    \E i \in 1..Len(e) :
        /\ e[i] = "@"
        /\ i > 1
        /\ AllIn(SubSeq(e, 1, i - 1), LocalChars)
        /\ \E k \in (i + 2)..Len(e) :
            /\ e[k] = "."
            /\ AllIn(SubSeq(e, i + 1, k - 1), DomainChars)
            /\ Len(e) - k >= 2
            /\ AllIn(SubSeq(e, k + 1, Len(e)), Letters)

\* str.split(","): the pieces between the commas
RECURSIVE SplitComma(_)
SplitComma(str) ==
    LET at == {i \in 1..Len(str) : str[i] = ","}
    IN  IF at = {} THEN <<str>>
        ELSE LET i == CHOOSE k \in at : \A l \in at : k <= l
             IN  <<SubSeq(str, 1, i - 1)>> \o SplitComma(SubSeq(str, i + 1, Len(str)))

\* validate_email_list: the stripped pieces that are not empty and match
validate_email_list(emails) ==
    LET parts    == SplitComma(emails)
        stripped == [i \in 1..Len(parts) |-> StripSpaces(parts[i])]
    IN  SelectSeq(stripped, LAMBDA email : email # <<>> /\ MatchesEmail(email))

-----------------------------------------------------------------------------
(* core/emailer.py: test_api_key; app.py: the API key, recipients and       *)
(* schedule handlers of the settings tab                                     *)

\* test_api_key: a key of at least 10 characters once stripped
test_api_key(api_key) == api_key # <<>> /\ Len(StripSpaces(api_key)) >= 10

\* texts of the API key field and of the recipients field: a key that
\* test_api_key accepts, one address, and a text that holds no address
GoodKey == <<"r", "e", "_", "1", "2", "3", "4", "5", "6", "7">>

OneAddress == <<"a", "@", "b", ".", "c", "o">>

NoAddress == <<"n", "o", "b", "o", "d", "y">>

\* schedule_job as one call on a job store: the job of job_id is removed,
\* then the arguments are tested and the new job added
schedule_job_call(store, job_id, func, time_str, frequency) ==
    LET removed == {j \in store : j.id # job_id}
        t == ParseTime(time_str)
    IN  IF ValidArgs(time_str, frequency)
        THEN AddJob(removed, job_id, func, CronTrigger(frequency, t.hh, t.mm))
        ELSE [ok |-> FALSE, store |-> removed]

\* save_api_key, app.py:470-483
save_api_key(text, write_ok) ==
    LET key   == StripSpaces(text)
        saved == save_config([cfg EXCEPT !.api_key = key], config_file, write_ok)
    IN  /\ IF key = <<>>
           THEN /\ cfgRet' = [op |-> "save_api_key", shown |-> "Empty Key"]
                /\ UNCHANGED <<cfg, config_file>>
           ELSE IF ~test_api_key(key)
           THEN /\ cfgRet' = [op |-> "save_api_key", shown |-> "Invalid Key"]
                /\ UNCHANGED <<cfg, config_file>>
           ELSE /\ cfg' = [cfg EXCEPT !.api_key = key]
                /\ config_file' = saved.file
                /\ cfgRet' = [op |-> "save_api_key",
                              shown |-> IF saved.ok THEN "Saved" ELSE "Error"]
        /\ UNCHANGED <<genVars, schedVars, archVars, scanVars, cronVars>>

\* save_recip, app.py:500-512
save_recip(text, write_ok) ==
    LET emails == StripSpaces(text)
        valid  == validate_email_list(emails)
        saved  == save_config([cfg EXCEPT !.recipients = emails], config_file,
                              write_ok)
    IN  /\ IF emails # <<>> /\ valid = <<>>
           THEN /\ cfgRet' = [op |-> "save_recip", shown |-> "Invalid Emails"]
                /\ UNCHANGED <<cfg, config_file>>
           ELSE /\ cfg' = [cfg EXCEPT !.recipients = emails]
                /\ config_file' = saved.file
                /\ cfgRet' = [op |-> "save_recip",
                              shown |-> IF saved.ok THEN "Saved" ELSE "Error"]
        /\ UNCHANGED <<genVars, schedVars, archVars, scanVars, cronVars>>

\* save_schedule, app.py:681-740
save_schedule(date_text, time_text, freq, write_ok) ==
    LET date   == date_text
        time   == StripSpaces(time_text)
        \* whether datetime.strptime(date, "%Y-%m-%d") accepts the date
        StrptimeOk == date = "2026-01-05"
        newcfg == [cfg EXCEPT !.schedule = [date |-> Some(date),
                                            time |-> Some(time),
                                            frequency |-> Some(freq)]]
        saved  == save_config(newcfg, config_file, write_ok)
        sj     == schedule_job_call(jobs, "send_latest", "scheduled_email_job",
                                    time, freq)
        early(shown) == /\ cfgRet' = [op |-> "save_schedule", shown |-> shown]
                        /\ UNCHANGED <<cfg, config_file, jobs, lastRet>>
    IN  /\ schedCall = NoCall
        /\ IF date = "" \/ time = <<>> \/ freq = "" THEN early("Incomplete")
           ELSE IF ~StrptimeOk THEN early("Invalid Date")
           ELSE IF ~ParseTime(time).ok THEN early("Invalid Time")
           ELSE IF cfg.api_key = <<>> THEN early("API Key Required")
           ELSE IF cfg.recipients = <<>> THEN early("Recipients Required")
           ELSE IF ~saved.ok
           THEN /\ cfg' = newcfg
                /\ cfgRet' = [op |-> "save_schedule", shown |-> "Error: save"]
                /\ UNCHANGED <<config_file, jobs, lastRet>>
           ELSE /\ cfg' = newcfg
                /\ config_file' = saved.file
                /\ jobs' = sj.store
                /\ lastRet' = [op |-> IF sj.ok THEN "schedule_job:True"
                                      ELSE "schedule_job:False",
                               id |-> "send_latest"]
                /\ cfgRet' = [op |-> "save_schedule",
                              shown |-> IF sj.ok THEN "Schedule Activated"
                                        ELSE "Error: activate"]
        /\ UNCHANGED schedCall
        /\ UNCHANGED <<genVars, archVars, scanVars, cronVars>>

\* disable_schedule, app.py:742-754
disable_schedule(write_ok) ==
    LET newcfg == [cfg EXCEPT !.schedule = NoSchedule]
    IN  /\ schedCall = NoCall
        /\ IF HasJob("send_latest")
           THEN /\ jobs' = jobs \ JobsWithId("send_latest")
                /\ lastRet' = [op |-> "remove_job:True", id |-> "send_latest"]
                /\ cfg' = newcfg
                /\ config_file' = save_config(newcfg, config_file, write_ok).file
                /\ cfgRet' = [op |-> "disable_schedule", shown |-> "Disabled"]
           ELSE /\ lastRet' = [op |-> "remove_job:False", id |-> "send_latest"]
                /\ cfgRet' = [op |-> "disable_schedule", shown |-> "Not Active"]
                /\ UNCHANGED <<cfg, config_file, jobs>>
        /\ UNCHANGED schedCall
        /\ UNCHANGED <<genVars, archVars, scanVars, cronVars>>

\* the buttons of the settings tab, with what the user has typed into the
\* fields; the frequency is a value of the read-only combo box, or what
\* config.json put into it at startup
NextSettings ==
    \/ \E text \in {<<>>, <<"r", "e", "_", "1">>, <<" ">> \o GoodKey},
          write_ok \in BOOLEAN :
            save_api_key(text, write_ok)
    \/ \E text \in {<<>>, OneAddress, NoAddress, <<"x", ",", " ">> \o OneAddress},
          write_ok \in BOOLEAN :
            save_recip(text, write_ok)
    \/ \E date_text \in {"2026-01-05", "05/01/2026", ""},
          time_text \in { <<"0", "9", ":", "0", "0">>,          \* "09:00"
                          <<" ", "9", ":", "5">>,               \* " 9:5"
                          <<"2", "4", ":", "0", "0">>,          \* "24:00"
                          <<>> },
          freq \in {"Daily", "Weekly", "Biweekly", ""},
          write_ok \in BOOLEAN :
            save_schedule(date_text, time_text, freq, write_ok)
    \/ \E write_ok \in BOOLEAN : disable_schedule(write_ok)

-----------------------------------------------------------------------------
(* Specifications: one per subsystem *)

\* the scanner between calls: nothing to scan, no call in progress
IdleScan ==
    /\ rootExists = [r \in Roots |-> FALSE]
    /\ tree = [s \in Slots |-> "none"]
    /\ scanPc = "done"
    /\ ri = 1
    /\ dq = <<>>
    /\ curDir = ""
    /\ pending = <<>>
    /\ cur = NoSlot
    /\ total_files = 0
    /\ processed = 0
    /\ rows = <<>>
    /\ calls = <<>>
    /\ touched = {}
    /\ touchedRoots = {}
    /\ envChanges = 0

IdleCron ==
    /\ cronJob = NoCronJob
    /\ cronLast = [op |-> "none"]
    /\ cronCount = 0

Init == InitGen /\ InitSched /\ InitArch /\ IdleScan /\ InitCfg /\ IdleCron

NextGen == on_click_generate \/ do_generate

\* scheduled_email_job, run by a thread of the scheduler: the newest *.pdf
\* of the cache directory is attached and sent when there is one, a valid
\* recipient and an API key
scheduled_email_job ==
    /\ mailed' = IF cache = <<>> THEN [op |-> "no_reports"]
                 ELSE IF validate_email_list(cfg.recipients) = <<>>
                 THEN [op |-> "no_recipients"]
                 ELSE IF cfg.api_key = <<>> THEN [op |-> "no_api_key"]
                 ELSE [op |-> "sent", attached |-> cache[Len(cache)]]
    /\ UNCHANGED <<is_generating, gen, genOutcome, rejected, cache>>
    /\ UNCHANGED <<schedVars, archVars, scanVars, cfgVars, cronVars>>

NextDeliver == on_click_generate \/ do_generate \/ scheduled_email_job

\* app.py:20, cfg = load_config(), with the config.json the program finds:
\* none, one that cannot be parsed, or one whose thresholds are arrays of any
\* length or numbers
InitLoad ==
    /\ InitGen /\ InitSched /\ InitArch /\ IdleScan /\ IdleCron
    /\ \E red   \in {JsonArray(<<15, 20>>), JsonArray(<<10>>),
                      JsonArray(<<1, 2, 3>>), [json |-> "number", items |-> <<>>]},
          amber \in {JsonArray(<<4, 14>>), JsonArray(<<>>),
                      [json |-> "number", items |-> <<>>]},
          green \in {JsonArray(<<0, 3>>), JsonArray(<<0>>)},
          recipients \in {<<>>, OneAddress},
          api_key \in {<<>>, GoodKey} :
            config_file \in
                {MissingConfig, CorruptConfig,
                 [state |-> "ok",
                  data |-> [recipients |-> recipients, api_key |-> api_key,
                            thresholds |-> [red |-> red, amber |-> amber,
                                            green |-> green],
                            schedule |-> NoSchedule]]}
    /\ cfg = DefaultConfig
    /\ cfgRet = NoCfgRet

load_at_startup ==
    /\ cfgRet = NoCfgRet
    /\ cfg' = load_config(config_file)
    /\ cfgRet' = [op |-> "load_config"]
    /\ UNCHANGED config_file
    /\ UNCHANGED <<genVars, schedVars, archVars, scanVars, cronVars>>

SpecLoad == InitLoad /\ [][load_at_startup]_vars

SpecGen == Init /\ [][NextGen]_vars

\* every do_generate thread that was started keeps being scheduled until its
\* function returns
SpecGenFair ==
    /\ Init
    /\ [][NextGen]_vars
    /\ \A t \in ThreadIds :
        WF_vars(\/ GenStart(t)
                \/ GenBody(t)
                \/ GenCacheOpen(t)
                \/ \E written \in BOOLEAN : GenCacheWrite(t, written)
                \/ GenFinally(t))

SpecSched == Init /\ [][NextSched]_vars

SpecArchive == Init /\ [][NextArch]_vars

\* the archive store used through save_report_copy, list_reports and
\* delete_report alone: index.json is touched by nothing else, and no unlink
\* fails
NextStore ==
    \/ save_report_copy
    \/ list_reports
    \/ \E name \in DOMAIN files \cup {AbsentName, IndexName} :
        \/ delete_report(BareName(name), FALSE)
        \/ delete_report(AbsolutePath(name), FALSE)

SpecStore == Init /\ [][NextStore]_vars

\* one call of scan_folders, from its first statement
InitScanCall ==
    InitGen /\ InitSched /\ InitArch /\ InitScan /\ InitCfg /\ IdleCron

\* the program started with the thresholds config.json held, when it has
\* any: written by an earlier run, or by hand
InitThresh ==
    /\ InitGen /\ InitSched /\ InitArch /\ IdleScan /\ IdleCron
    /\ config_file \in
        {MissingConfig, CorruptConfig} \cup
        {OkConfig([DefaultConfig EXCEPT !.thresholds = th]) :
            th \in { [red |-> <<365, 365>>, amber |-> <<1, 1>>, green |-> <<0, 0>>],
                     [red |-> <<5, 10>>, amber |-> <<2, 14>>, green |-> <<0, 30>>],
                     [red |-> <<10, 5>>, amber |-> <<0, 3>>, green |-> <<400, 500>>] }}
    /\ cfg = load_config(config_file)
    /\ cfgRet = NoCfgRet

SpecThresh == InitThresh /\ [][NextThresh]_vars

SpecCron == Init /\ [][NextCron]_vars

\* the program started with the recipients, API key and schedule config.json
\* held, when it has any: written by an earlier run, or by hand.  sched is a
\* scheduler just started, with no job (app.py:21).
InitSettings ==
    /\ InitGen /\ InitSched /\ InitArch /\ IdleScan /\ IdleCron
    /\ config_file \in
        {MissingConfig,
         OkConfig([DefaultConfig EXCEPT !.recipients = OneAddress,
                                        !.api_key = GoodKey]),
         OkConfig([DefaultConfig EXCEPT !.recipients = NoAddress,
                                        !.api_key = GoodKey]),
         OkConfig([DefaultConfig EXCEPT
                    !.recipients = OneAddress,
                    !.api_key = GoodKey,
                    !.schedule = [date |-> Some("2026-01-05"),
                                  time |-> Some(<<"0", "9", ":", "0", "0">>),
                                  frequency |-> Some("Daily")]])}
    /\ cfg = load_config(config_file)
    /\ cfgRet = NoCfgRet

SpecSettings == InitSettings /\ [][NextSettings]_vars

\* report generation and scheduled delivery, the program having started with
\* the recipients and API key config.json held
SpecDeliver == InitSettings /\ [][NextDeliver]_vars

SpecScan == InitScanCall /\ [][NextScan]_vars

-----------------------------------------------------------------------------
\* C1: at most one report generation is in flight at a time: no click starts
\* a do_generate thread while another do_generate thread is still in flight.
C1_OneGenerationAtATime ==
    Cardinality({t \in ThreadIds : InFlight(t)}) <= 1

-----------------------------------------------------------------------------
\* a 24-hour time written as two digits, a colon, two digits
WellFormedHHMM(s) ==
    /\ Len(s) = 5
    /\ s[3] = ":"
    /\ \A i \in {1, 2, 4, 5} : s[i] \in Digits
    /\ 10 * DigitVal(s[1]) + DigitVal(s[2]) <= 23
    /\ 10 * DigitVal(s[4]) + DigitVal(s[5]) <= 59

ScheduleReturned == lastRet.op \in {"schedule_job:True", "schedule_job:False"}

\* C2: a schedule_job call whose frequency is not one of the nine recognized
\* values, or whose time is not a well-formed 24-hour HH:MM, returns false and
\* leaves no job registered under its id.
C2_InvalidArgsRejected ==
    (/\ ScheduleReturned
     /\ \/ lastRet.frequency \notin ALLOWED_FREQUENCIES
        \/ ~WellFormedHHMM(lastRet.time_str))
    => (lastRet.op = "schedule_job:False" /\ ~HasJob(lastRet.id))

\* C3: the job table holds at most one job per identifier, no observer finds
\* the identifier without a job while a valid schedule_job call is replacing
\* its job, and after the call the identifier maps to the new callback and
\* firing rule.
C3_AtomicReplace ==
    /\ \A id \in JobIds : Cardinality(JobsWithId(id)) <= 1
    /\ (lastRet.op \in {"timer", "get_next_run_time"} /\ lastRet.replacing)
            => lastRet.found
    /\ lastRet.op = "schedule_job:True" =>
            JobsWithId(lastRet.id) =
                {[id |-> lastRet.id, func |-> lastRet.func,
                  trigger |-> CronTrigger(lastRet.frequency,
                                          ParseTime(lastRet.time_str).hh,
                                          ParseTime(lastRet.time_str).mm)]}

-----------------------------------------------------------------------------
DeleteReturned == archRet.op = "delete_report"

EntriesAt(items, p) == {i \in 1..Len(items) : items[i].path = p}

\* C4: a delete of an archived report, given as absolute path or as bare file
\* name, ends with neither the file nor any index entry referencing it left:
\* never the file removed and the entry kept, nor the entry removed and the
\* file kept.
C4_DeleteRemovesBoth ==
    [][(archRet'.op = "delete_report") =>
        LET p == ResolveArg(archRet'.arg)
            archived == \/ p.name \in DOMAIN files
                        \/ EntriesAt(LoadIndex(index), p) # {}
        IN  archived => /\ p.name \notin DOMAIN files'
                        /\ EntriesAt(LoadIndex(index'), p) = {}]_vars

\* C5: delete returns true exactly when it removed the file from disk or
\* removed at least one index entry; for a name matching no file and no index
\* entry it returns false and leaves the index entries and the report files
\* unchanged.
C5_DeleteReturnValue ==
    [][(archRet'.op = "delete_report") =>
        LET p == ResolveArg(archRet'.arg)
            indexFile == p = AppPath(IndexName)
            fileRemoved == \/ p.name \in DOMAIN files /\ p.name \notin DOMAIN files'
                           \/ indexFile /\ ~archRet'.unlink_fails
            entriesRemoved == Len(LoadIndex(index')) < Len(LoadIndex(index))
            noMatch == /\ p.name \notin DOMAIN files
                       /\ ~indexFile
                       /\ EntriesAt(LoadIndex(index), p) = {}
        IN  /\ archRet'.ret = (fileRemoved \/ entriesRemoved)
            /\ noMatch => /\ archRet'.ret = FALSE
                          /\ LoadIndex(index') = LoadIndex(index)
                          /\ files' = files]_vars

\* a delete of a name that matches nothing returned false in an archive that
\* holds files and entries
C5_Witness ==
    /\ DeleteReturned
    /\ archRet.ret = FALSE
    /\ archRet.arg.name = AbsentName
    /\ DOMAIN files # {}
    /\ index.items # <<>>

\* name with " (n)" put before its extension (the part from the last dot on,
\* a leading dot not counting)
InsertNumber(name, n) == Numbered(SplitExt(name).stem, n, SplitExt(name).ext)

-----------------------------------------------------------------------------
ScanDone == scanPc = "done"

\* the regular files and the files that cannot be stat'ed in the tree
RegularFiles == {s \in Slots : tree[s] = "reg"}

UnreadableFiles == {s \in Slots : tree[s] = "denied"}

\* the tree holds regular files and unreadable files only, and nothing
\* changed it during the scan
PlainStaticTree ==
    /\ envChanges = 0
    /\ \A s \in Slots : tree[s] \in {"none", "reg", "denied"}

\* C7: scanning a tree of N regular files and M files that cannot be stat'ed
\* returns exactly N records and calls progress exactly N+M times, done going
\* up by one at each call (1, 2, ..., N+M).
C7_RecordsAndProgressCalls ==
    (ScanDone /\ PlainStaticTree) =>
        /\ Len(rows) = Cardinality(RegularFiles)
        /\ Len(calls) = Cardinality(RegularFiles) + Cardinality(UnreadableFiles)
        /\ \A i \in 1..Len(calls) : calls[i].done = i

\* a finished scan of an unchanged tree with regular and unreadable files in
\* both roots
C7_Witness ==
    /\ ScanDone
    /\ PlainStaticTree
    /\ Cardinality(RegularFiles) = 2
    /\ Cardinality(UnreadableFiles) = 2
    /\ Len(rows) = 2
    /\ Len(calls) = 4

\* C8: every progress call has 0 <= done <= total and a done greater than the
\* call before, also when files or roots appear or vanish during the scan;
\* after a scan of an unchanged tree the last call has done = total.
C8_ProgressWithinTotal ==
    /\ \A i \in 1..Len(calls) :
        /\ 0 <= calls[i].done
        /\ calls[i].done <= calls[i].total
        /\ i > 1 => calls[i].done > calls[i - 1].done
    /\ (ScanDone /\ envChanges = 0 /\ calls # <<>>) =>
            calls[Len(calls)].done = calls[Len(calls)].total

Recorded(s) == \E i \in 1..Len(rows) : rows[i].file_path = s

\* C9: the result of a scan has a record for every regular file that can be
\* stat'ed under every existing root; a file that fails to stat (denied, or
\* deleted during the scan) or a missing root never makes the scan skip other
\* files.
C9_FailuresSkipOnlyThemselves ==
    ScanDone =>
        \A s \in Slots :
            (/\ tree[s] = "reg"
             /\ s \notin touched
             /\ RootOf(s[1]) \notin touchedRoots) => Recorded(s)

\* C10: every record of a scan describes a regular file, never a symbolic
\* link or a special file.
C10_OnlyRegularFiles ==
    \A i \in 1..Len(rows) : IsRegLstat(rows[i].was)

-----------------------------------------------------------------------------
\* a range of whole days within 0..365
ValidRange(r) == 0 <= r[1] /\ r[1] <= r[2] /\ r[2] <= 365

\* two inclusive ranges share a day
Overlap(a, b) == a[2] >= b[1] /\ b[2] >= a[1]

\* three valid ranges, pairwise non-overlapping
ValidSet(th) ==
    /\ ValidRange(th.red) /\ ValidRange(th.amber) /\ ValidRange(th.green)
    /\ ~Overlap(th.red, th.amber)
    /\ ~Overlap(th.red, th.green)
    /\ ~Overlap(th.amber, th.green)

\* the whole days elapsed from modified to now, 0 when modified is later
AgeDays(now, modified) ==
    IF modified > now THEN 0 ELSE (now - modified) \div SecondsPerDay

Bands == {"red", "amber", "green"}

\* C11: for a valid ThresholdSet and any (now, modified), classify returns the
\* one band whose inclusive day range contains ageDays, or none when no range
\* contains it; ageDays is the whole days from modified to now, 0 when
\* modified is later than now.
C11_ClassifyBand ==
    (cfgRet.op = "color_state" /\ ValidSet(cfg.thresholds)) =>
        LET d   == AgeDays(cfgRet.now, cfgRet.modified)
            hit == {b \in Bands : /\ cfg.thresholds[b][1] <= d
                                  /\ d <= cfg.thresholds[b][2]}
        IN  /\ Cardinality(hit) <= 1
            /\ \A b \in hit : cfgRet.state = b
            /\ hit = {} => cfgRet.state = ""

\* with the default thresholds a file modified 25 days ago is in no band, one
\* modified 5 days ago is amber, one modified after now is green
C11_Witness ==
    /\ cfgRet.op = "color_state"
    /\ cfg.thresholds = DefaultThresholds
    /\ cfgRet.now = 25 * SecondsPerDay + 1
    /\ cfgRet.modified = 1
    /\ cfgRet.state = ""

\* the three ranges typed into the fields, when all six are integers
TypedSet(texts) ==
    [red   |-> <<PyInt(texts.red[1]).val, PyInt(texts.red[2]).val>>,
     amber |-> <<PyInt(texts.amber[1]).val, PyInt(texts.amber[2]).val>>,
     green |-> <<PyInt(texts.green[1]).val, PyInt(texts.green[2]).val>>]

AllIntegers(texts) ==
    \A b \in Bands : PyInt(texts[b][1]).ok /\ PyInt(texts[b][2]).ok

\* C12: threshold validation rejects every set in which two of the ranges
\* overlap (a.end >= b.start and b.end >= a.start), whichever is named first,
\* and every range violating 0 <= start <= end <= 365; it accepts every set
\* that violates neither.
C12_ValidationRejects ==
    (cfgRet.op = "save_thresh" /\ AllIntegers(cfgRet.texts)) =>
        /\ (cfgRet.shown \in {"Saved", "Error"}) <=> ValidSet(TypedSet(cfgRet.texts))
        /\ validate(TypedSet(cfgRet.texts)) <=> ValidSet(TypedSet(cfgRet.texts))

\* red 1..365 and amber 0..1 share day 1 only, amber starting first: rejected
C12_Witness ==
    /\ cfgRet.op = "save_thresh"
    /\ cfgRet.shown = "Overlap Detected"
    /\ cfgRet.texts.red = << <<"1">>, <<"3", "6", "5">> >>
    /\ cfgRet.texts.amber = << <<"0">>, <<"1">> >>

\* C13: in every reachable state the active ThresholdSet, as loaded at startup
\* or as changed by set-thresholds operations, is three pairwise
\* non-overlapping ranges within 0..365; no other set is stored in memory or
\* persisted.
C13_ActiveThresholdsValid ==
    /\ ValidSet(cfg.thresholds)
    /\ (cfgRet.op = "save_thresh" /\ cfgRet.shown = "Saved") =>
            (config_file.state = "ok" /\ ValidSet(load_config(config_file).thresholds))

-----------------------------------------------------------------------------
\* the hour and the minute a well-formed HH:MM names
HourOf(s) == 10 * DigitVal(s[1]) + DigitVal(s[2])

MinuteOf(s) == 10 * DigitVal(s[4]) + DigitVal(s[5])

\* C14: with frequency 'Weekly' and a valid time HH:MM the next fire time of
\* the registered job is a Monday at HH:MM (the first one from the call on),
\* whatever the day and time of the schedule_job call and whatever start_date
\* is passed.
C14_WeeklyOnMonday ==
    (/\ cronJob.registered
     /\ cronJob.frequency = "Weekly"
     /\ WellFormedHHMM(cronJob.time_str)) =>
        /\ Weekday(cronJob.next_run_time.day) = 0
        /\ cronJob.next_run_time.hour = HourOf(cronJob.time_str)
        /\ cronJob.next_run_time.minute = MinuteOf(cronJob.time_str)
        /\ cronJob.next_run_time.second = 0
        /\ cronCount = 0 =>
            /\ cronJob.next_run_time.day >= cronJob.scheduled_at.day
            /\ cronJob.next_run_time.day <= cronJob.scheduled_at.day + 7

\* scheduled on a Monday half a minute after 09:00 for 09:00, with a start
\* date years ahead: the next fire time is the Monday after
C14_Witness ==
    /\ cronJob.registered
    /\ cronJob.frequency = "Weekly"
    /\ cronJob.time_str = <<"0", "9", ":", "0", "0">>
    /\ cronJob.start_date = "2030-06-15"
    /\ cronJob.scheduled_at = [day |-> 4, hour |-> 9, minute |-> 0, second |-> 30]
    /\ cronJob.next_run_time.day = 11
    /\ cronCount = 0

\* the calendar rule each frequency is said to follow
RuleDay(frequency, d) ==
    CASE frequency = "Every 2 days"   -> DateOf(d).day % 2 = 0
      [] frequency = "Fortnightly"    -> DateOf(d).day % 14 = 0
      [] frequency = "Monthly"        -> DateOf(d).day = 1
      [] frequency = "Every 6 months" -> DateOf(d).day = 1 /\ DateOf(d).month \in {1, 7}
      [] frequency = "Yearly"         -> DateOf(d).day = 1 /\ DateOf(d).month = 1
      [] OTHER                        -> TRUE

\* C15: 'Every 2 days' fires exactly on days of the month that are multiples
\* of 2, 'Fortnightly' exactly on multiples of 14, 'Monthly' on day 1, 'Every 6
\* months' on day 1 of months 1 and 7, 'Yearly' on day 1 of month 1, at the
\* given hour and minute, and at no other calendar instant.
C15_CalendarRules ==
    /\ cronLast.op = "run" =>
        /\ RuleDay(cronJob.frequency, cronLast.at.day)
        /\ cronJob.frequency # "Hourly" =>
                cronLast.at.hour = ParseTime(cronJob.time_str).hh
        /\ cronLast.at.minute = ParseTime(cronJob.time_str).mm
    /\ (cronJob.registered /\ cronCount = 0) =>
        \A d \in (cronJob.scheduled_at.day + 1)..(cronJob.next_run_time.day - 1) :
            ~RuleDay(cronJob.frequency, d)

StrictlyLater(a, b) ==
    \/ a.day > b.day
    \/ a.day = b.day /\ SecondOfDay(a) > SecondOfDay(b)

\* C16: a recurring job stays registered across fires: after its callback is
\* invoked, whether it returns or raises, the job is still registered with a
\* next fire time (later than the fire); it leaves the table only through
\* remove_job or a schedule_job call.
C16_StaysRegistered ==
    [][/\ cronLast'.op = "run" =>
            /\ cronJob'.registered
            /\ cronJob'.trigger = cronJob.trigger
            /\ StrictlyLater(cronJob'.next_run_time, cronLast'.at)
       /\ (cronJob.registered /\ ~cronJob'.registered) =>
            cronLast'.op \in {"remove_job", "schedule_job"}]_vars

\* the job has run twice, its callback raised the second time, and it is
\* registered for a third run
C16_Witness ==
    /\ cronLast.op = "run"
    /\ cronLast.outcome = "raised"
    /\ cronCount = 2
    /\ cronJob.registered

\* C17: remove_job(id) returns true exactly when a job with that id was
\* registered before the call, and the id is not registered afterwards; when
\* none matches it returns false; every other job is left untouched.
C17_RemoveJobReturn ==
    [][lastRet'.op \in {"remove_job:True", "remove_job:False"} =>
        /\ (lastRet'.op = "remove_job:True") <=> HasJob(lastRet'.id)
        /\ \A j \in jobs' : j.id # lastRet'.id
        /\ {j \in jobs' : j.id # lastRet'.id} = {j \in jobs : j.id # lastRet'.id}]_vars

\* a registered job was removed while the job of the other id stayed
C17_Witness ==
    /\ lastRet.op = "remove_job:True"
    /\ lastRet.id = "aux"
    /\ HasJob("send_latest")
    /\ ~HasJob("aux")

-----------------------------------------------------------------------------
\* an API key and at least one recipient address are configured
DeliveryConfigured(c) ==
    c.api_key # <<>> /\ validate_email_list(c.recipients) # <<>>

\* C18: enabling the schedule registers the 'send_latest' job and stores the
\* ScheduleSpec only if, at that moment, an API key and at least one recipient
\* address are configured; otherwise no job is registered and the stored
\* schedule is unchanged.
C18_EnableNeedsDelivery ==
    [][(cfgRet'.op = "save_schedule" /\ ~DeliveryConfigured(cfg)) =>
            /\ jobs' = jobs
            /\ cfg'.schedule = cfg.schedule
            /\ config_file' = config_file]_vars

-----------------------------------------------------------------------------
ListReturned == archRet.op = "list_reports"

\* the number of times x occurs in a sequence
Count(seq, x) == Cardinality({i \in 1..Len(seq) : seq[i] = x})

SameEntries(a, b) ==
    /\ Len(a) = Len(b)
    /\ \A i \in 1..Len(a) : Count(a, a[i]) = Count(b, a[i])

\* C19: list() called when the index file is missing, unreadable or empty
\* returns one entry for each report file present in the archive directory,
\* with original_name equal to the stored name and the archive timestamp equal
\* to the file's modification time, and the persisted index holds the
\* returned entries afterwards.
C19_ListRebuildsFromFiles ==
    [][(archRet'.op = "list_reports" /\ LoadIndex(index) = <<>>) =>
        LET ret == archRet'.ret
        IN  /\ Len(ret) = Cardinality(DOMAIN files)
            /\ \A n \in DOMAIN files :
                \E i \in 1..Len(ret) :
                    /\ ret[i].name = n
                    /\ ret[i].original_name = n
                    /\ ret[i].ts = files[n].mtime
            /\ index'.state = "ok"
            /\ SameEntries(index'.items, ret)]_vars

\* C20: list() returns every entry of the index, ordered so that archive
\* timestamps never increase from one entry to the next.
C20_ListSortedNewestFirst ==
    ListReturned =>
        /\ SameEntries(archRet.ret, LoadIndex(index))
        /\ \A i \in 1..(Len(archRet.ret) - 1) :
                archRet.ret[i].ts >= archRet.ret[i + 1].ts

\* the index holds an older entry before a newer one, and list() returned the
\* newer one first
C20_Witness ==
    /\ ListReturned
    /\ Len(index.items) = 2
    /\ index.items[1].ts < index.items[2].ts
    /\ Len(archRet.ret) = 2
    /\ archRet.ret[1] = index.items[2]
    /\ archRet.ret[2] = index.items[1]

-----------------------------------------------------------------------------
SaveReturned == archRet.op = "save_report_copy"

\* C21: saveCopy with a sourcePath that does not exist fails with a not-found
\* error, copies no file into the archive and adds no entry to the index.
C21_MissingSourceRejected ==
    [][(archRet'.op = "save_report_copy" /\ ~archRet'.src_exists) =>
        /\ archRet'.raised = "FileNotFoundError"
        /\ files' = files
        /\ LoadIndex(index') = LoadIndex(index)]_vars

\* a save of a missing source was refused in an archive that holds a file and
\* an entry
C21_Witness ==
    /\ SaveReturned
    /\ ~archRet.src_exists
    /\ archRet.raised = "FileNotFoundError"
    /\ DOMAIN files # {}
    /\ Len(index.items) >= 1

-----------------------------------------------------------------------------
\* the handlers that write the configuration
ConfigWrites ==
    {"save_thresh", "save_recip", "save_api_key", "save_schedule",
     "disable_schedule"}

\* what a handler shows when it reports the write as done
SuccessShown == {"Saved", "Schedule Activated", "Disabled"}

\* C22: a configuration write (thresholds, recipients, API key or schedule)
\* is reported as successful only if the new value was persisted, and a write
\* that is not persisted leaves the in-memory configuration as it was.
C22_ConfigWriteAtomic ==
    [][(cfgRet'.op \in ConfigWrites) =>
        /\ cfgRet'.shown \in SuccessShown => config_file' = OkConfig(cfg')
        /\ cfg' # cfg => config_file' = OkConfig(cfg')]_vars

-----------------------------------------------------------------------------
\* a threshold range of config.json has the shape of a range: an array of two
WellShaped(v) == v.json = "array" /\ Len(v.items) = 2

\* config.json cannot be parsed, or one of its fields has the wrong shape
Malformed(file) ==
    \/ file.state = "corrupt"
    \/ /\ file.state = "ok"
       /\ \E v \in {file.data.thresholds.red, file.data.thresholds.amber,
                    file.data.thresholds.green} : ~WellShaped(v)

\* C23: loading the configuration yields the defaults (red=[15,20],
\* amber=[4,14], green=[0,3], empty recipients, key and schedule) when the
\* file is missing, and the same defaults when it is malformed (unparsable,
\* or parsable with fields of the wrong shape).
C23_LoadDefaults ==
    (cfgRet.op = "load_config" /\ (config_file.state = "missing"
                                    \/ Malformed(config_file)))
        => cfg = DefaultConfig

-----------------------------------------------------------------------------
\* C24: a scheduled email that fires after a failed report generation, or
\* concurrently with a generation, never attaches a report whose rendering
\* and caching did not complete.
C24_OnlyCompleteReportsMailed ==
    mailed.op = "sent" => mailed.attached.complete

-----------------------------------------------------------------------------
\* the age shown in a report row, in seconds
AgeSeconds ==
    IF cfgRet.now > cfgRet.modified THEN cfgRet.now - cfgRet.modified ELSE 0

\* the text before the first space of a text
FirstWord(txt) ==
    LET sp == CHOOSE i \in 1..Len(txt) :
                    txt[i] = " " /\ \A j \in 1..(i - 1) : txt[j] # " "
    IN  SubSeq(txt, 1, sp - 1)

-----------------------------------------------------------------------------
\* the inclusive range r holds the age of the row last computed
HoldsAge(r) ==
    /\ r[1] <= AgeDays(cfgRet.now, cfgRet.modified)
    /\ AgeDays(cfgRet.now, cfgRet.modified) <= r[2]

\* C26: classify evaluates red, then amber, then green and returns the first
\* range that contains the age, also for a ThresholdSet whose ranges overlap:
\* red wins over amber and green, amber wins over green.
C26_FirstBandWins ==
    cfgRet.op = "color_state" =>
        LET th == cfg.thresholds
        IN  /\ HoldsAge(th.red) => cfgRet.state = "red"
            /\ (~HoldsAge(th.red) /\ HoldsAge(th.amber)) => cfgRet.state = "amber"
            /\ (~HoldsAge(th.red) /\ ~HoldsAge(th.amber) /\ HoldsAge(th.green))
                    => cfgRet.state = "green"

\* with ranges loaded from a hand-edited config.json that all hold an age of
\* 5 days, the row is red
C26_Witness ==
    /\ cfgRet.op = "color_state"
    /\ AgeDays(cfgRet.now, cfgRet.modified) = 5
    /\ HoldsAge(cfg.thresholds.red)
    /\ HoldsAge(cfg.thresholds.amber)
    /\ HoldsAge(cfg.thresholds.green)
    /\ cfgRet.state = "red"

-----------------------------------------------------------------------------
\* C27: a successful saveCopy leaves every index entry that existed before
\* the call unchanged and adds exactly one entry, whose name, path and size
\* describe the stored copy and whose original_name is the source's file
\* name, whatever the state of the index file before the call (missing,
\* unparsable, or a list of entries).
C27_SaveAddsOneEntry ==
    [][(archRet'.op = "save_report_copy" /\ archRet'.raised = "") =>
        LET before == LoadIndex(index)
            after  == LoadIndex(index')
            new    == after[Len(after)]
        IN  /\ index'.state = "ok"
            /\ Len(after) = Len(before) + 1
            /\ SubSeq(after, 1, Len(before)) = before
            /\ new.path = archRet'.ret
            /\ new.name = archRet'.ret.name
            /\ new.name \in DOMAIN files' \ DOMAIN files
            /\ new.size = files'[new.name].size
            /\ new.original_name = archRet'.src_name]_vars

\* a save into an archive that held one entry returned, and the index holds
\* that entry followed by the one of the new copy
C27_Witness ==
    /\ SaveReturned
    /\ archRet.raised = ""
    /\ Len(index.items) = 2
    /\ index.items[1].name # archRet.ret.name
    /\ index.items[2].path = archRet.ret

-----------------------------------------------------------------------------
\* C28: starting from an empty archive, after any sequence of saveCopy, list
\* and delete calls made through the archive store alone, the paths recorded
\* in the index are exactly the report files present in the archive
\* directory, and each path is recorded by exactly one entry.
C28_IndexMatchesFiles ==
    LET items == LoadIndex(index)
    IN  /\ {items[i].path : i \in 1..Len(items)}
                = {AppPath(n) : n \in DOMAIN files}
        /\ \A i, j \in 1..Len(items) : items[i].path = items[j].path => i = j

-----------------------------------------------------------------------------
\* C29: every report generation that starts eventually clears the
\* in-progress flag, whether it succeeds, finds no folders selected, finds no
\* files, or fails with an exception in scanning, rendering or caching.
C29_FlagEventuallyCleared ==
    \A t \in ThreadIds :
        (gen[t] = "spawned") ~> (gen[t] = "done" /\ ~is_generating)

\* a generation that failed has returned with the flag clear
C29_Witness ==
    \E t \in ThreadIds :
        /\ gen[t] = "done"
        /\ genOutcome[t] = "error"
        /\ ~is_generating

-----------------------------------------------------------------------------
\* the stored schedule has all three of date, time and frequency
ScheduleSet(schedule) ==
    schedule.date.some /\ schedule.time.some /\ schedule.frequency.some

\* C30: after startup and after every completed enable-schedule or
\* disable-schedule action, the 'send_latest' job is registered in the
\* scheduler if and only if the stored schedule has all three of date, time
\* and frequency set.
C30_JobIffScheduleStored ==
    cfgRet.op \in {"none", "save_schedule", "disable_schedule"} =>
        (HasJob("send_latest") <=> ScheduleSet(cfg.schedule))

====
